---- MODULE Spec2Model ----
(***************************************************************************)
(* Model of sprout's safe self-update core: the schema migration runner    *)
(* (pkg/migrator, internal/platform/database), the migration guard         *)
(* (internal/app/mguard.go) with the installer script, and the App         *)
(* lifecycle with the update orchestrator (internal/app).                  *)
(***************************************************************************)
EXTENDS Integers, Sequences, FiniteSets, TLC

(***************************************************************************)
(* Bounds                                                                  *)
(***************************************************************************)
MaxSteps == 3
MaxNow == 1
NumProcs == 1
NumCallers == 2
NumWriters == 2
MaxVal == 2
MaxSets == 2
MaxListens == 2

StepIds == {"v1", "v2", "v3"}

(***************************************************************************)
(* Migration runner state                                                  *)
(***************************************************************************)
VARIABLES
    now,        \* wall clock (time.Now)
    store,      \* committed content of the config DBI: "version", "data", step writes
    steps,      \* Migrator.steps: declared step ids, in Add order
    txn,        \* working copy of the open write transaction
    mpc,        \* position of Migrate: idle, declare, run, put, abort, done, failed
    currentVer, \* Migrate's currentVer, read inside the transaction
    idx,        \* Run's loop index i (0-based, as in the source)
    finalVersion, \* Run's finalVersion
    mErr,       \* error returned by Migrate: "nil", "unknown", "apply"
    applied,    \* history: ids whose Up was invoked by the current run
    preStore,   \* history: committed store when the run began
    rView,      \* the last snapshot a concurrent reader took
    rAt         \* history: position of Migrate when that snapshot was taken

migVars == <<now, store, steps, txn, mpc, currentVer, idx, finalVersion, mErr,
             applied, preStore, rView, rAt>>

(***************************************************************************)
(* Processes, migration guard and installer state                          *)
(***************************************************************************)
VARIABLES
    xdg,        \* XDG_RUNTIME_DIR in the environment: "set", "empty", "unset"
    pc,         \* per process: position in main (Init stages, command, Close)
    build,      \* per process: the build it was started from ("none": no process)
    cleanup,    \* per process: App.cleanup, the registered cleanup functions
    held,       \* per process: open resources ("lock", "log", "db", "ac")
    markers,    \* pids with a marker file in the instances directory of the app
    fresh,      \* markers newer than the installer's lock file
    installed,  \* the build whose binary is at APP_BIN
    ipc,        \* position of the install script
    backup,     \* old_app_bin: the build saved for rollback
    exHeld,     \* the install script holds the exclusive lock on its LOCK_FILE
    termed      \* pids the install script sent TERM to, not yet delivered

procVars == <<pc, build, cleanup, held>>
fsVars == <<markers, fresh>>
instVars == <<installed, ipc, backup, exHeld>>
guardVars == <<xdg, procVars, fsVars, instVars, termed>>

(***************************************************************************)
(* Update orchestrator state of an App                                     *)
(***************************************************************************)
VARIABLES
    postCleanup, \* per process: App.postCleanup ("nil" or "payload")
    uOnce,       \* per process: App.uOnce ("new", "running", "done")
    call,        \* per caller goroutine: position in DeferUpdate / DetachUpdate
    callOp,      \* per caller goroutine: "defer" or "detach"
    callErr,     \* per caller goroutine: rErr
    callRan,     \* per caller goroutine: its current call ran the Once function
    nReg,        \* history: payload registrations (SetPostCleanup by DeferUpdate)
    nDet,        \* history: detached payload launches
    launches,    \* history: payload launches, with what they found
    chk          \* the CheckForUpdate call of the instance, with its history

appVars == <<postCleanup, uOnce, call, callOp, callErr, callRan, nReg, nDet, launches, chk>>

(***************************************************************************)
(* One key of the store under the generic helpers (View, Upsert, Update)   *)
(***************************************************************************)
VARIABLES
    kv,     \* the committed value of the key (NoData: the key is absent)
    wtxn,   \* the open write transaction's value of the key
    wlock,  \* the writer holding LMDB's write lock (0: none)
    wpc,    \* per writer: position in Upsert / Update
    wop,    \* per writer: "upsert" or "update"
    wfn,    \* per writer: the updateFn passed in ("inc" or "fail")
    wpre,   \* per writer, history: the committed value when its transaction began
    wpost,  \* per writer, history: the committed value when its call returned
    wres,   \* per writer: what the call returns (err, created)
    rpc,    \* the reader: position in View
    rsnap,  \* the reader: the value its read transaction sees
    rseen,  \* the reader, history: the committed value when its transaction began
    rres,   \* the reader: what View returned
    hist    \* history: every value the key ever had committed

kvVars == <<kv, wtxn, wlock, wpc, wop, wfn, wpre, wpost, wres, rpc, rsnap, rseen, rres, hist>>

\* Close and SetPostCleanup of the instance AppProc, as observed
VARIABLES
    setLog,     \* the SetPostCleanup calls so far, in mutex order: [f, ok]
    postRan,    \* the function Close called as post cleanup ("nil": none)
    closeLog    \* the cleanup functions Close has called so far: [f, err]

closeVars == <<setLog, postRan, closeLog>>

\* App.Close of the instance AppProc
VARIABLES
    cleanupOnce, \* App.cleanupOnce ("new", "running", "done")
    closer,      \* who entered cleanupOnce: "none", "main" (the deferred Close), "go"
    closeSeen,   \* the states of cleanupOnce that Close calls of goroutines found
    nPost        \* how often Close has called the post cleanup function

onceVars == <<cleanupOnce, closer, closeSeen, nPost>>

\* App.Init failing
VARIABLES
    flockWait,  \* processes whose flock goroutine is still blocked in
                \* unix.Flock after mguard gave up on it
    initErr     \* the stage at which Init of the instance AppProc failed ("nil": none)

initVars == <<flockWait, initErr>>

\* the runtime directory
VARIABLES
    lockFile,   \* the file migrate.lock exists at the path mguard uses
    exeNow      \* processes whose executable is the file now at the install path

lockVars == <<lockFile, exeNow>>

\* the auto checker of the instance AppProc
VARIABLES
    ac,     \* startAutoChecker and its goroutine: position, the deadline of
            \* the timer or ticker it waits on, which of the two fired last
    acLog   \* history: the start and every firing since, with what it read
            \* from the config and how many CheckForUpdate calls it made

acVars == <<ac, acLog>>

\* App.BaseURL of the instance AppProc
VARIABLES
    baseURL \* the config getBaseURL was last given and the URL it returned

urlVars == <<baseURL>>

\* the instance AppProc as the service ("service run") and its restart endpoints
VARIABLES
    svc     \* the unit, the server and its restart handler, with their history

svcVars == <<svc>>

vars == <<migVars, guardVars, appVars, kvVars, closeVars, onceVars, initVars,
          lockVars, acVars, urlVars, svcVars>>

(***************************************************************************)
(* Configuration record and store                                          *)
(***************************************************************************)
NoData == [present |-> FALSE]

\* the Configuration literal of step "v1" (migration.go:26-32)
InitialConfigZeroPort(t) ==
    [present |-> TRUE, logLevel |-> "WARN", port |-> 0, host |-> "localhost",
     proxyPort |-> 0, updateNotifications |-> TRUE, lastUpdateCheck |-> t,
     updateAvailable |-> FALSE, preUpdateVersion |-> "", startCounter |-> 0]

InitialConfig(t) ==
    [present |-> TRUE, logLevel |-> "WARN", port |-> 8080, host |-> "localhost",
     proxyPort |-> 0, updateNotifications |-> TRUE, lastUpdateCheck |-> t,
     updateAvailable |-> FALSE, preUpdateVersion |-> "", startCounter |-> 0]

EmptyStore == [version |-> "", data |-> NoData, marks |-> {}]

\* the step list Migrate declares (migration.go:18)
SproutSteps == <<"v1">>

(***************************************************************************)
(* Migrator.New, Migrator.Add, Migrator.Run                                *)
(***************************************************************************)
\* Add appends the step whatever its id
AddStep(ss, id) == Append(ss, id)

\* the range loop of Run: is some step's ID equal to currentVersion
Found(ss, cur) == \E i \in 1..Len(ss) : ss[i] = cur

\* 1-based position of the first step whose ID is cur
FirstMatch(ss, cur) ==
    CHOOSE i \in 1..Len(ss) : ss[i] = cur /\ \A j \in 1..(i-1) : ss[j] # cur

\* part 1 of Run: startIndex (0-based, one past the first match) or the
\* not-found error
RunStartGuess(ss, cur) ==
    IF cur = "" THEN [err |-> FALSE, startIndex |-> 0]
    ELSE IF Found(ss, cur) THEN [err |-> FALSE, startIndex |-> FirstMatch(ss, cur)]
    ELSE [err |-> FALSE, startIndex |-> 0]

RunStart(ss, cur) ==
    IF cur = "" THEN [err |-> FALSE, startIndex |-> 0]
    ELSE IF Found(ss, cur) THEN [err |-> FALSE, startIndex |-> FirstMatch(ss, cur)]
    ELSE [err |-> TRUE, startIndex |-> 0]

\* Up of a step: "v1" stores the initial config, a later step its own writes
StepUp(id, t, clock) ==
    IF id = "v1" THEN [t EXCEPT !.data = InitialConfig(clock)]
    ELSE [t EXCEPT !.marks = @ \cup {id}]

\* are the writes of step id present in store s
Written(id, s) ==
    IF id = "v1" THEN s.data.present ELSE id \in s.marks

(***************************************************************************)
(* Migrate: New, Add..., then one write transaction around Run             *)
(***************************************************************************)
\* m := migrator.New()
MigrateNew ==
    /\ mpc \in {"idle", "done", "failed"}
    /\ steps' = << >>
    /\ mpc' = "declare"
    /\ applied' = << >>
    /\ mErr' = "nil"
    /\ rAt' = "none"
    /\ UNCHANGED <<guardVars, appVars, closeVars>>
    /\ UNCHANGED <<now, store, txn, currentVer, idx, finalVersion, preStore, rView>>
    /\ UNCHANGED kvVars
    /\ UNCHANGED onceVars
    /\ UNCHANGED initVars
    /\ UNCHANGED lockVars
    /\ UNCHANGED acVars
    /\ UNCHANGED urlVars
    /\ UNCHANGED svcVars

\* m.Add(id, desc, op)
Add(id) ==
    /\ mpc = "declare"
    /\ Len(steps) < MaxSteps
    /\ steps' = AddStep(steps, id)
    /\ UNCHANGED <<guardVars, appVars, closeVars>>
    /\ UNCHANGED <<now, store, txn, mpc, currentVer, idx, finalVersion, mErr,
                   applied, preStore, rView, rAt>>
    /\ UNCHANGED kvVars
    /\ UNCHANGED onceVars
    /\ UNCHANGED initVars
    /\ UNCHANGED lockVars
    /\ UNCHANGED acVars
    /\ UNCHANGED urlVars
    /\ UNCHANGED svcVars

\* db.Update begins; currentVer is read in the transaction (NotFound reads as
\* ""); Run determines where to start
MigrateBegin ==
    /\ mpc = "declare"
    /\ preStore' = store
    /\ txn' = store
    /\ currentVer' = store.version
    /\ finalVersion' = store.version
    /\ idx' = RunStart(steps, store.version).startIndex
    /\ IF RunStart(steps, store.version).err
       THEN mpc' = "abort" /\ mErr' = "unknown"
       ELSE mpc' = "run" /\ mErr' = "nil"
    /\ UNCHANGED <<guardVars, appVars, closeVars>>
    /\ UNCHANGED <<now, store, steps, applied, rView, rAt>>
    /\ UNCHANGED kvVars
    /\ UNCHANGED onceVars
    /\ UNCHANGED initVars
    /\ UNCHANGED lockVars
    /\ UNCHANGED acVars
    /\ UNCHANGED urlVars
    /\ UNCHANGED svcVars

\* one iteration of Run's loop: step.Up(txn) succeeds
ApplyStepOk ==
    /\ mpc = "run"
    /\ idx < Len(steps)
    /\ applied' = Append(applied, steps[idx + 1])
    /\ txn' = StepUp(steps[idx + 1], txn, now)
    /\ finalVersion' = steps[idx + 1]
    /\ idx' = idx + 1
    /\ UNCHANGED <<guardVars, appVars, closeVars>>
    /\ UNCHANGED <<now, store, steps, mpc, currentVer, mErr, preStore, rView, rAt>>
    /\ UNCHANGED kvVars
    /\ UNCHANGED onceVars
    /\ UNCHANGED initVars
    /\ UNCHANGED lockVars
    /\ UNCHANGED acVars
    /\ UNCHANGED urlVars
    /\ UNCHANGED svcVars

\* step.Up(txn) returns an error, at worst after all its writes: Run and
\* Migrate return it
ApplyStepFail ==
    /\ mpc = "run"
    /\ idx < Len(steps)
    /\ applied' = Append(applied, steps[idx + 1])
    /\ txn' = StepUp(steps[idx + 1], txn, now)
    /\ mpc' = "abort"
    /\ mErr' = "apply"
    /\ UNCHANGED <<guardVars, appVars, closeVars>>
    /\ UNCHANGED <<now, store, steps, currentVer, idx, finalVersion, preStore, rView, rAt>>
    /\ UNCHANGED kvVars
    /\ UNCHANGED onceVars
    /\ UNCHANGED initVars
    /\ UNCHANGED lockVars
    /\ UNCHANGED acVars
    /\ UNCHANGED urlVars
    /\ UNCHANGED svcVars

\* the loop is over: newVer is put under "version" in the transaction
PutVersion ==
    /\ mpc = "run"
    /\ idx >= Len(steps)
    /\ txn' = [txn EXCEPT !.version = finalVersion]
    /\ mpc' = "put"
    /\ UNCHANGED <<guardVars, appVars, closeVars>>
    /\ UNCHANGED <<now, store, steps, currentVer, idx, finalVersion, mErr,
                   applied, preStore, rView, rAt>>
    /\ UNCHANGED kvVars
    /\ UNCHANGED onceVars
    /\ UNCHANGED initVars
    /\ UNCHANGED lockVars
    /\ UNCHANGED acVars
    /\ UNCHANGED urlVars
    /\ UNCHANGED svcVars

\* db.Update: the function returned nil, the transaction commits as a whole
CommitVersionOnly(committed, t) == [committed EXCEPT !.version = t.version]

Commit(committed, t) == t

\* db.Update: the function returned an error, the transaction is discarded
AbortKeepsWrites(committed, t) == [t EXCEPT !.version = committed.version]

Abort(committed, t) == committed

MigrateCommit ==
    /\ mpc = "put"
    /\ store' = Commit(store, txn)
    /\ mpc' = "done"
    /\ UNCHANGED <<guardVars, appVars, closeVars>>
    /\ UNCHANGED <<now, steps, txn, currentVer, idx, finalVersion, mErr,
                   applied, preStore, rView, rAt>>
    /\ UNCHANGED kvVars
    /\ UNCHANGED onceVars
    /\ UNCHANGED initVars
    /\ UNCHANGED lockVars
    /\ UNCHANGED acVars
    /\ UNCHANGED urlVars
    /\ UNCHANGED svcVars

MigrateAbort ==
    /\ mpc = "abort"
    /\ store' = Abort(store, txn)
    /\ txn' = store'
    /\ mpc' = "failed"
    /\ UNCHANGED <<guardVars, appVars, closeVars>>
    /\ UNCHANGED <<now, steps, currentVer, idx, finalVersion, mErr,
                   applied, preStore, rView, rAt>>
    /\ UNCHANGED kvVars
    /\ UNCHANGED onceVars
    /\ UNCHANGED initVars
    /\ UNCHANGED lockVars
    /\ UNCHANGED acVars
    /\ UNCHANGED urlVars
    /\ UNCHANGED svcVars

\* a reader in its own transaction (db.View) sees the committed store
ReaderView ==
    /\ rView # store \/ rAt # mpc
    /\ rView' = store
    /\ rAt' = mpc
    /\ UNCHANGED <<guardVars, appVars, closeVars>>
    /\ UNCHANGED <<now, store, steps, txn, mpc, currentVer, idx, finalVersion,
                   mErr, applied, preStore>>
    /\ UNCHANGED kvVars
    /\ UNCHANGED onceVars
    /\ UNCHANGED initVars
    /\ UNCHANGED lockVars
    /\ UNCHANGED acVars
    /\ UNCHANGED urlVars
    /\ UNCHANGED svcVars

\* "update --notify" in another process: one UpdateConfig transaction; it
\* waits for the single writer lock while Migrate's transaction is open
ToggleNotify ==
    /\ mpc \in {"idle", "declare"}
    /\ store.data.present
    /\ store' = [store EXCEPT !.data.updateNotifications = ~@]
    /\ UNCHANGED <<guardVars, appVars, closeVars>>
    /\ UNCHANGED <<now, steps, txn, mpc, currentVer, idx, finalVersion, mErr,
                   applied, preStore, rView, rAt>>
    /\ UNCHANGED kvVars
    /\ UNCHANGED onceVars
    /\ UNCHANGED initVars
    /\ UNCHANGED lockVars
    /\ UNCHANGED acVars
    /\ UNCHANGED urlVars
    /\ UNCHANGED svcVars

(***************************************************************************)
(* Builds, processes, paths                                                *)
(***************************************************************************)
Builds == {"old", "new"}

\* build.Info().Version: a release tag, or the sentinel of a development build
BuildVersion(b) ==
    IF b = "old" THEN "v1.0.0" ELSE IF b = "new" THEN "v1.1.0" ELSE "vX.X.X"

\* the steps a build's Migrate declares: the shipped list, and the list after
\* the version bump sketched in migration.go
BuildSteps(b) == IF b = "old" THEN SproutSteps ELSE <<"v1", "v2">>

\* the instance the install script starts with -m
MigId == 0
\* the instance whose update operations are exercised
AppProc == 1
Procs == 1..NumProcs
AllProcs == 0..NumProcs
Callers == 1..NumCallers

\* cmd.Bool("migrate")
IsMigrator(p) == p = MigId

\* a.Version == "vX.X.X"
IsDevBuildNever(v) == FALSE

IsDevBuild(v) == v = "vX.X.X"

\* no CheckForUpdate call was made yet
ChkIdle ==
    [pc |-> "idle", ver |-> "", latest |-> "", ret |-> FALSE, err |-> "nil",
     contacted |-> FALSE, at |-> 0, k |-> 0, written |-> {}, post |-> NoData]

\* GET /settings/restart-status was not served
NoStatus == [asked |-> FALSE, restarted |-> FALSE, updated |-> FALSE]

\* no service process: no unit starts it, nothing listens, no restart was
\* requested
SvcOff ==
    [managed |-> FALSE, listening |-> FALSE, shutdown |-> FALSE, ran |-> FALSE,
     owed |-> FALSE, requested |-> FALSE, listenedSince |-> FALSE,
     reqVer |-> "", repl |-> "none", status |-> NoStatus]

\* no auto checker goroutine
AcOff == [pc |-> "off", kind |-> "none", due |-> 0]

\* getRuntimePath, then mguard's lock file and instances directory
GetRuntimePath(x) ==
    IF x = "set" THEN <<"$XDG_RUNTIME_DIR", "sprout">> ELSE <<"/tmp", "sprout-$USER">>

GoLockPath(x) == GetRuntimePath(x) \o <<"migrate.lock">>
GoInstancesDir(x) == GetRuntimePath(x) \o <<"instances">>

\* install.sh: RUNTIME_DIR, LOCK_FILE, INSTANCES_DIR (x is not "unset")
ShRuntimeDir(x) ==
    IF x = "set" THEN <<"$XDG_RUNTIME_DIR">> ELSE <<"/tmp", "sprout-$USER">>

ShLockFile(x) == ShRuntimeDir(x) \o <<"sprout", "migrate.lock">>
ShInstancesDir(x) == ShRuntimeDir(x) \o <<"sprout", "instances">>

SameLockFile == GoLockPath(xdg) = ShLockFile(xdg)
SameInstancesDir == GoInstancesDir(xdg) = ShInstancesDir(xdg)

\* normal instances holding the shared flock
ShHolders == {p \in Procs : "lock" \in held[p]}

\* flock(2): LOCK_SH is granted unless an exclusive lock is held on the file
CanLockShared == ~(exHeld /\ SameLockFile)

\* flock(1) -x: granted when no lock is held on the file
CanLockExclusive == ~(SameLockFile /\ ShHolders # {})

(***************************************************************************)
(* database.New inside Init: Migrate as one transaction                    *)
(***************************************************************************)
RECURSIVE ApplyFrom(_, _, _, _)
ApplyFrom(ss, i, t, clock) ==
    IF i >= Len(ss) THEN t
    ELSE ApplyFrom(ss, i + 1, StepUp(ss[i + 1], t, clock), clock)

MigrateStore(s, ss, clock) ==
    LET r == RunStart(ss, s.version)
        pending == r.startIndex < Len(ss)
        newVer == IF pending THEN ss[Len(ss)] ELSE s.version
    IN  IF r.err THEN [err |-> TRUE, pending |-> FALSE, store |-> s]
        ELSE [err |-> FALSE, pending |-> pending,
              store |-> Commit(s, [ApplyFrom(ss, r.startIndex, s, clock)
                                       EXCEPT !.version = newVer])]

(***************************************************************************)
(* App.Init, the command, App.Close                                        *)
(***************************************************************************)
\* Init: the first stage after the paths; the migrator (-m) skips mguard
InitEntryAlwaysGuards(p) == "mguard"

InitEntry(p) == IF IsMigrator(p) THEN "logger" ELSE "mguard"

\* the service state when a new process of version v is started: nothing of
\* the server or of its handlers survives; history: the first process of
\* another version than the one that accepted the restart with update is the
\* replacement, and it stays the replacement while it lives
SvcStarted(s, v) ==
    [s EXCEPT !.listening = FALSE, !.shutdown = FALSE, !.ran = FALSE,
              !.owed = FALSE, !.status = NoStatus,
              !.repl = IF s.repl = "none" /\ s.reqVer # "" /\ v # s.reqVer
                       THEN "current"
                       ELSE IF s.repl = "current" THEN "gone" ELSE s.repl]

\* a normal instance is started from the binary at APP_BIN; main builds a new
\* App (no cleanup, no post cleanup, unused Once)
Start(p) ==
    /\ pc[p] = "off"
    /\ pc' = [pc EXCEPT ![p] = InitEntry(p)]
    /\ build' = [build EXCEPT ![p] = installed]
    /\ postCleanup' = [postCleanup EXCEPT ![p] = "nil"]
    /\ uOnce' = [uOnce EXCEPT ![p] = "new"]
    /\ IF p = AppProc
       THEN /\ nReg' = 0 /\ nDet' = 0 /\ launches' = {}
            /\ call' = [c \in Callers |-> "idle"]
            /\ callErr' = [c \in Callers |-> "nil"]
            /\ callRan' = [c \in Callers |-> FALSE]
            /\ chk' = ChkIdle
            /\ setLog' = << >> /\ postRan' = "nil" /\ closeLog' = << >>
            /\ cleanupOnce' = "new" /\ closer' = "none"
            /\ closeSeen' = {} /\ nPost' = 0
            /\ initErr' = "nil"
       ELSE UNCHANGED <<nReg, nDet, launches, call, callErr, callRan, chk,
                        closeVars, onceVars, initErr>>
    /\ flockWait' = flockWait \ {p}
    /\ UNCHANGED <<xdg, cleanup, held, fsVars, instVars, termed, callOp>>
    /\ UNCHANGED migVars
    /\ UNCHANGED kvVars
    /\ exeNow' = exeNow \cup {p}
    /\ UNCHANGED lockFile
    /\ IF p = AppProc
       THEN ac' = AcOff /\ acLog' = << >>
       ELSE UNCHANGED acVars
    /\ UNCHANGED urlVars
    /\ svc' = IF p = AppProc THEN SvcStarted(svc, BuildVersion(installed)) ELSE svc

\* mguard: the shared flock is granted
MguardLock(p) ==
    /\ pc[p] = "mguard"
    /\ CanLockShared
    /\ held' = [held EXCEPT ![p] = @ \cup {"lock"}]
    /\ pc' = [pc EXCEPT ![p] = "marker"]
    /\ UNCHANGED <<xdg, build, cleanup, fsVars, instVars, termed>>
    /\ UNCHANGED <<migVars, appVars, closeVars>>
    /\ UNCHANGED kvVars
    /\ UNCHANGED onceVars
    /\ UNCHANGED initVars
    /\ lockFile' = TRUE
    /\ UNCHANGED exeNow
    /\ UNCHANGED acVars
    /\ UNCHANGED urlVars
    /\ UNCHANGED svcVars

\* main's deferred app.Close enters cleanupOnce (no goroutine called Close
\* before main returned)
MainClose(p) ==
    IF p = AppProc
    THEN /\ cleanupOnce' = "running"
         /\ closer' = "main"
         /\ UNCHANGED <<closeSeen, nPost>>
    ELSE UNCHANGED onceVars

\* the process is gone: no descriptor stays open, no signal is pending
Exit(p) ==
    /\ pc' = [pc EXCEPT ![p] = "off"]
    /\ build' = [build EXCEPT ![p] = "none"]
    /\ held' = [held EXCEPT ![p] = {}]
    /\ cleanup' = [cleanup EXCEPT ![p] = << >>]
    /\ termed' = termed \ {p}

\* where main is after Init returned an error: rootCommand.Run returns it,
\* main prints it and returns into the deferred app.Close
AfterInitErrorExits == "off"

AfterInitError == "closing"

\* mguard: LockAcquireTimeout elapses while the flock is blocked; the file is
\* closed with the goroutine still inside unix.Flock, Init fails and main's
\* deferred Close finds no cleanup
MguardTimeout(p) ==
    /\ pc[p] = "mguard"
    /\ ~CanLockShared
    /\ pc' = [pc EXCEPT ![p] = AfterInitError]
    /\ MainClose(p)
    /\ flockWait' = flockWait \cup {p}
    /\ initErr' = IF p = AppProc THEN "timeout" ELSE initErr
    /\ UNCHANGED <<xdg, build, cleanup, held, termed, fsVars, instVars>>
    /\ UNCHANGED <<migVars, appVars, closeVars>>
    /\ UNCHANGED kvVars
    /\ lockFile' = TRUE
    /\ UNCHANGED exeNow
    /\ UNCHANGED acVars
    /\ UNCHANGED urlVars
    /\ UNCHANGED svcVars

\* the blocked flock of a process that gave up is granted after all: the
\* call holds the open file description although its descriptor is closed
FlockLate(p) ==
    /\ p \in flockWait
    /\ pc[p] # "off"
    /\ CanLockShared
    /\ "lock" \notin held[p]
    /\ held' = [held EXCEPT ![p] = @ \cup {"lock"}]
    /\ UNCHANGED <<xdg, pc, build, cleanup, termed, fsVars, instVars>>
    /\ UNCHANGED <<migVars, appVars, closeVars>>
    /\ UNCHANGED kvVars
    /\ UNCHANGED onceVars
    /\ UNCHANGED initVars
    /\ UNCHANGED lockVars
    /\ UNCHANGED acVars
    /\ UNCHANGED urlVars
    /\ UNCHANGED svcVars

\* the late flock call returns: nothing refers to the open file description
\* any more and the kernel drops its lock
FlockLateReturn(p) ==
    /\ p \in flockWait
    /\ "lock" \in held[p]
    /\ held' = [held EXCEPT ![p] = @ \ {"lock"}]
    /\ flockWait' = flockWait \ {p}
    /\ UNCHANGED initErr
    /\ UNCHANGED <<xdg, pc, build, cleanup, termed, fsVars, instVars>>
    /\ UNCHANGED <<migVars, appVars, closeVars>>
    /\ UNCHANGED kvVars
    /\ UNCHANGED onceVars
    /\ UNCHANGED lockVars
    /\ UNCHANGED acVars
    /\ UNCHANGED urlVars
    /\ UNCHANGED svcVars

\* Init returns an error at a stage that has registered nothing itself: the
\* runtime directory or the lock file cannot be opened ("mguard"), the marker
\* file cannot be created (mguard closes the lock file first), xlog.New fails
\* ("logger"), or ViewConfig, getBaseURL, SetLevel or startAutoChecker fails
\* ("autocheck")
InitFail(p) ==
    /\ pc[p] \in {"mguard", "marker", "logger", "autocheck"}
    /\ held' = [held EXCEPT ![p] = IF pc[p] = "marker" THEN @ \ {"lock"} ELSE @]
    /\ pc' = [pc EXCEPT ![p] = AfterInitError]
    /\ MainClose(p)
    /\ initErr' = IF p = AppProc THEN pc[p] ELSE initErr
    /\ UNCHANGED flockWait
    /\ UNCHANGED <<xdg, build, cleanup, termed, fsVars, instVars>>
    /\ UNCHANGED <<migVars, appVars, closeVars>>
    /\ UNCHANGED kvVars
    /\ UNCHANGED lockVars
    /\ UNCHANGED acVars
    /\ UNCHANGED urlVars
    /\ UNCHANGED svcVars

\* mguard: the marker file instances/<pid> is written, the cleanup is added
MguardMarker(p) ==
    /\ pc[p] = "marker"
    /\ markers' = markers \cup {p}
    /\ fresh' = fresh \cup {p}
    /\ cleanup' = [cleanup EXCEPT ![p] = Append(@, "mguard")]
    /\ pc' = [pc EXCEPT ![p] = "logger"]
    /\ UNCHANGED <<xdg, build, held, instVars, termed>>
    /\ UNCHANGED <<migVars, appVars, closeVars>>
    /\ UNCHANGED kvVars
    /\ UNCHANGED onceVars
    /\ UNCHANGED initVars
    /\ UNCHANGED lockVars
    /\ UNCHANGED acVars
    /\ UNCHANGED urlVars
    /\ UNCHANGED svcVars

\* Init: xlog.New, AddCleanup(a.Log.Close)
OpenLog(p) ==
    /\ pc[p] = "logger"
    /\ held' = [held EXCEPT ![p] = @ \cup {"log"}]
    /\ cleanup' = [cleanup EXCEPT ![p] = Append(@, "log")]
    /\ pc' = [pc EXCEPT ![p] = "database"]
    /\ UNCHANGED <<xdg, build, fsVars, instVars, termed>>
    /\ UNCHANGED <<migVars, appVars, closeVars>>
    /\ UNCHANGED kvVars
    /\ UNCHANGED onceVars
    /\ UNCHANGED initVars
    /\ UNCHANGED lockVars
    /\ UNCHANGED acVars
    /\ UNCHANGED urlVars
    /\ UNCHANGED svcVars

\* Init: database.New opens the store and runs Migrate with the steps of the
\* process's build, then the database cleanup is added; when database.New
\* fails Init returns the error and main's deferred Close runs
OpenDB(p) ==
    /\ pc[p] = "database"
    /\ LET r == MigrateStore(store, BuildSteps(build[p]), now) IN
         IF r.err
         THEN /\ pc' = [pc EXCEPT ![p] = AfterInitError]
              /\ MainClose(p)
              /\ initErr' = IF p = AppProc THEN "database" ELSE initErr
              /\ UNCHANGED <<store, held, cleanup, flockWait>>
         ELSE /\ store' = r.store
              /\ held' = [held EXCEPT ![p] = @ \cup {"db"}]
              /\ cleanup' = [cleanup EXCEPT ![p] = Append(@, "db")]
              /\ pc' = [pc EXCEPT ![p] = "autocheck"]
              /\ UNCHANGED <<onceVars, initVars>>
    /\ UNCHANGED <<xdg, build, fsVars, instVars, termed>>
    /\ UNCHANGED <<now, steps, txn, mpc, currentVer, idx, finalVersion, mErr,
                   applied, preStore, rView, rAt>>
    /\ UNCHANGED <<appVars, closeVars>>
    /\ UNCHANGED kvVars
    /\ UNCHANGED lockVars
    /\ UNCHANGED acVars
    /\ UNCHANGED urlVars
    /\ UNCHANGED svcVars

\* Init: ViewConfig, base URL, startAutoChecker and its cleanup; on a
\* development build startAutoChecker returns at once
StartAutoChecker(p) ==
    /\ pc[p] = "autocheck"
    /\ IF IsDevBuild(BuildVersion(build[p]))
       THEN UNCHANGED <<held, cleanup>>
       ELSE /\ held' = [held EXCEPT ![p] = @ \cup {"ac"}]
            /\ cleanup' = [cleanup EXCEPT ![p] = Append(@, "ac")]
    /\ pc' = [pc EXCEPT ![p] = "running"]
    /\ UNCHANGED <<xdg, build, fsVars, instVars, termed>>
    /\ UNCHANGED <<migVars, appVars, closeVars>>
    /\ UNCHANGED kvVars
    /\ UNCHANGED onceVars
    /\ UNCHANGED initVars
    /\ UNCHANGED lockVars
    /\ UNCHANGED acVars
    /\ UNCHANGED urlVars
    /\ UNCHANGED svcVars

\* the command's Action returns (every DeferUpdate / DetachUpdate call it made
\* has returned); main returns into the deferred app.Close
Finish(p) ==
    /\ pc[p] = "running"
    /\ p = AppProc => \A c \in Callers : call[c] \in {"idle", "returned"}
    /\ pc' = [pc EXCEPT ![p] = "closing"]
    /\ MainClose(p)
    /\ UNCHANGED <<xdg, build, cleanup, held, fsVars, instVars, termed>>
    /\ UNCHANGED <<migVars, appVars, closeVars>>
    /\ UNCHANGED kvVars
    /\ UNCHANGED initVars
    /\ UNCHANGED lockVars
    /\ UNCHANGED acVars
    /\ UNCHANGED urlVars
    /\ UNCHANGED svcVars

\* the database cleanup: a normal instance stores PreUpdateVersion first
DbCleanupStoreAlways(p, s) ==
    IF s.data.present
    THEN [s EXCEPT !.data.preUpdateVersion = BuildVersion(build[p])]
    ELSE s

DbCleanupStore(p, s) ==
    IF ~IsMigrator(p) /\ s.data.present
    THEN [s EXCEPT !.data.preUpdateVersion = BuildVersion(build[p])]
    ELSE s

\* Close: the next cleanup function, last added first
CleanupOrderFifo(cs) == [f |-> Head(cs), rest |-> Tail(cs)]

CleanupOrder(cs) == [f |-> cs[Len(cs)], rest |-> SubSeq(cs, 1, Len(cs) - 1)]

\* Close: the loop "for i := len(a.cleanup) - 1; i >= 0; i--" is over
CloseLoopSkipsFirst(cs) == Len(cs) <= 1

CloseLoopDone(cs) == cs = << >>

\* the mguard cleanup: os.Remove(pidPath)
RemoveMarkerSkipped(ms, p) == ms

RemoveMarker(ms, p) == ms \ {p}

\* the auto checker's cleanup: the channel is closed and the wait group
\* waited for, the goroutine has returned from whichever select it was in
StopCheckerReturnsEarly(a) == a

StopChecker(a) == AcOff

\* the results a cleanup function can return: closing the lock file and
\* closing the logger can fail, the database and auto checker cleanups return nil
CleanupErrs(f) == IF f \in {"mguard", "log"} THEN BOOLEAN ELSE {FALSE}

\* Close: one cleanup function runs; its error is printed and the loop goes on
RunCleanup(p) ==
    /\ pc[p] = "closing"
    /\ ~CloseLoopDone(cleanup[p])
    /\ LET nx == CleanupOrder(cleanup[p]) IN
        /\ (nx.f = "ac" /\ p = AppProc) => chk.pc # "commit"
        /\ IF p = AppProc
           THEN \E e \in CleanupErrs(nx.f) :
                    closeLog' = Append(closeLog, [f |-> nx.f, err |-> e])
           ELSE UNCHANGED closeLog
        /\ cleanup' = [cleanup EXCEPT ![p] = nx.rest]
        /\ held' = [held EXCEPT ![p] =
                      @ \ {IF nx.f = "mguard" THEN "lock" ELSE nx.f}]
        /\ markers' = IF nx.f = "mguard" THEN RemoveMarker(markers, p) ELSE markers
        /\ fresh' = IF nx.f = "mguard" THEN fresh \ {p} ELSE fresh
        /\ store' = IF nx.f = "db" THEN DbCleanupStore(p, store) ELSE store
        /\ ac' = IF nx.f = "ac" /\ p = AppProc THEN StopChecker(ac) ELSE ac
    /\ UNCHANGED <<xdg, pc, build, instVars, termed>>
    /\ UNCHANGED <<now, steps, txn, mpc, currentVer, idx, finalVersion, mErr,
                   applied, preStore, rView, rAt>>
    /\ UNCHANGED <<appVars, setLog, postRan>>
    /\ UNCHANGED kvVars
    /\ UNCHANGED onceVars
    /\ UNCHANGED initVars
    /\ UNCHANGED lockVars
    /\ UNCHANGED acLog
    /\ UNCHANGED urlVars
    /\ UNCHANGED svcVars

\* Close returns: cleanupOnce is done; when main's deferred Close ran it the
\* process exits, when a goroutine ran it main is still in its command
CloseReturn(p) ==
    /\ cleanupOnce' = IF p = AppProc THEN "done" ELSE cleanupOnce
    /\ UNCHANGED <<closer, closeSeen>>
    /\ IF p = AppProc /\ closer = "go"
       THEN /\ pc' = [pc EXCEPT ![p] = "closed"]
            /\ UNCHANGED <<build, held, cleanup, termed, closeLog>>
       ELSE /\ Exit(p)
            /\ closeLog' = IF p = AppProc THEN << >> ELSE closeLog

\* Close: the cleanups are done; without a post cleanup function Close
\* returns, with one Close sleeps and then calls it
CloseEnd(p) ==
    /\ pc[p] = "closing"
    /\ CloseLoopDone(cleanup[p])
    /\ IF postCleanup[p] = "nil"
       THEN /\ CloseReturn(p)
            /\ UNCHANGED nPost
       ELSE /\ pc' = [pc EXCEPT ![p] = "post"]
            /\ UNCHANGED <<build, held, cleanup, termed, closeLog, onceVars>>
    /\ UNCHANGED <<xdg, fsVars, instVars>>
    /\ UNCHANGED <<migVars, appVars, setLog, postRan>>
    /\ UNCHANGED kvVars
    /\ UNCHANGED initVars
    /\ UNCHANGED lockVars
    /\ UNCHANGED acVars
    /\ UNCHANGED urlVars
    /\ UNCHANGED svcVars

\* what a launched payload finds
LaunchRecord(p, kind) ==
    [kind |-> kind, ver |-> BuildVersion(build[p]),
     pre |-> IF store.data.present THEN store.data.preUpdateVersion ELSE "",
     open |-> held[p], marker |-> p \in markers, todo |-> Len(cleanup[p])]

\* Close: the post cleanup function is called (the one DeferUpdate registers
\* runs the install pipeline); the process exits
PostCleanup(p) ==
    /\ pc[p] = "post"
    /\ launches' = IF postCleanup[p] = "payload"
                   THEN launches \cup {LaunchRecord(p, "deferred")}
                   ELSE launches
    /\ postRan' = IF p = AppProc THEN postCleanup[p] ELSE postRan
    /\ nPost' = IF p = AppProc THEN nPost + 1 ELSE nPost
    /\ UNCHANGED setLog
    /\ CloseReturn(p)
    /\ UNCHANGED <<xdg, fsVars, instVars>>
    /\ UNCHANGED <<postCleanup, uOnce, call, callOp, callErr, callRan, nReg, nDet, chk>>
    /\ UNCHANGED migVars
    /\ UNCHANGED kvVars
    /\ UNCHANGED initVars
    /\ UNCHANGED lockVars
    /\ UNCHANGED acVars
    /\ UNCHANGED urlVars
    /\ UNCHANGED svcVars

\* sync.Once: does this caller run the function
OnceEntersAgain(o) == o # "running"

OnceEnters(o) == o = "new"

\* a.cleanup of the instance AppProc: the functions the Close loop has yet to
\* call followed by those it has called
Registered ==
    cleanup[AppProc] \o
        [i \in 1..Len(closeLog) |-> closeLog[Len(closeLog) + 1 - i].f]

\* a goroutine of the instance calls App.Close: cleanupOnce.Do runs the
\* function for the first caller only (its loop starts at the end of
\* a.cleanup); any other call returns without running it
CloseCall ==
    /\ pc[AppProc] \in {"running", "closing", "post", "closed"}
    /\ closeSeen' = closeSeen \cup {cleanupOnce}
    /\ IF OnceEnters(cleanupOnce)
       THEN /\ cleanupOnce' = "running"
            /\ closer' = "go"
            /\ pc' = [pc EXCEPT ![AppProc] = "closing"]
            /\ cleanup' = [cleanup EXCEPT ![AppProc] = Registered]
       ELSE UNCHANGED <<cleanupOnce, closer, pc, cleanup>>
    /\ UNCHANGED nPost
    /\ UNCHANGED <<xdg, build, held, fsVars, instVars, termed>>
    /\ UNCHANGED <<migVars, appVars, closeVars>>
    /\ UNCHANGED kvVars
    /\ UNCHANGED initVars
    /\ UNCHANGED lockVars
    /\ UNCHANGED acVars
    /\ UNCHANGED urlVars
    /\ UNCHANGED svcVars

\* main returns after a goroutine's Close ran the teardown: its deferred
\* Close finds cleanupOnce done, and the process exits
MainReturns ==
    /\ pc[AppProc] = "closed"
    /\ Exit(AppProc)
    /\ closeLog' = << >>
    /\ UNCHANGED <<setLog, postRan>>
    /\ UNCHANGED <<xdg, fsVars, instVars>>
    /\ UNCHANGED <<migVars, appVars, onceVars>>
    /\ UNCHANGED kvVars
    /\ UNCHANGED initVars
    /\ UNCHANGED lockVars
    /\ UNCHANGED acVars
    /\ UNCHANGED urlVars
    /\ UNCHANGED svcVars

(***************************************************************************)
(* DeferUpdate, DetachUpdate (goroutines of the instance AppProc)          *)
(***************************************************************************)
\* DeferUpdate / DetachUpdate is called: a.uOnce.Do lets the first caller in,
\* blocks a caller while the first is inside, returns at once afterwards
OnceDo(c, op) ==
    /\ callOp' = [callOp EXCEPT ![c] = op]
    /\ callErr' = [callErr EXCEPT ![c] = "nil"]
    /\ callRan' = [callRan EXCEPT ![c] = OnceEnters(uOnce[AppProc])]
    /\ IF OnceEnters(uOnce[AppProc])
       THEN /\ uOnce' = [uOnce EXCEPT ![AppProc] = "running"]
            /\ call' = [call EXCEPT ![c] = "prep"]
       ELSE /\ call' = [call EXCEPT ![c] =
                          IF uOnce[AppProc] = "running" THEN "blocked" ELSE "returned"]
            /\ UNCHANGED uOnce

\* the command's Action (or any goroutine of the instance) calls DeferUpdate
\* or DetachUpdate
CallUpdate(c, op) ==
    /\ pc[AppProc] = "running"
    /\ call[c] \in {"idle", "returned"}
    /\ OnceDo(c, op)
    /\ UNCHANGED <<postCleanup, nReg, nDet, launches, chk>>
    /\ UNCHANGED <<migVars, guardVars>>
    /\ UNCHANGED kvVars
    /\ UNCHANGED closeVars
    /\ UNCHANGED onceVars
    /\ UNCHANGED initVars
    /\ UNCHANGED lockVars
    /\ UNCHANGED acVars
    /\ UNCHANGED urlVars
    /\ UNCHANGED svcVars

\* a blocked caller returns once the first caller has left the Once
CallUnblock(c) ==
    /\ call[c] = "blocked"
    /\ uOnce[AppProc] = "done"
    /\ call' = [call EXCEPT ![c] = "returned"]
    /\ UNCHANGED <<postCleanup, uOnce, callOp, callErr, callRan, nReg, nDet, launches, chk>>
    /\ UNCHANGED <<migVars, guardVars>>
    /\ UNCHANGED kvVars
    /\ UNCHANGED closeVars
    /\ UNCHANGED onceVars
    /\ UNCHANGED initVars
    /\ UNCHANGED lockVars
    /\ UNCHANGED acVars
    /\ UNCHANGED urlVars
    /\ UNCHANGED svcVars

\* sync.Once when the function passed to Do returns: done, whether or not
\* the function set rErr
OnceLeftResets(failed) == IF failed THEN "new" ELSE "done"

OnceLeft(failed) == "done"

\* uPrep's UpdateConfig function
PrepConfig(cfg) == [cfg EXCEPT !.updateAvailable = FALSE]

\* uPrep: ErrDevBuild on a development build, else one UpdateConfig
\* transaction; it can fail (store error), and then the call returns the error
UPrep(c) ==
    /\ call[c] = "prep"
    /\ \/ /\ ~IsDevBuild(BuildVersion(build[AppProc]))
          /\ store.data.present
          /\ store' = [store EXCEPT !.data = PrepConfig(@)]
          /\ call' = [call EXCEPT ![c] = "act"]
          /\ UNCHANGED <<uOnce, callErr>>
       \/ /\ call' = [call EXCEPT ![c] = "returned"]
          /\ callErr' = [callErr EXCEPT ![c] =
                            IF IsDevBuild(BuildVersion(build[AppProc]))
                            THEN "dev" ELSE "err"]
          /\ uOnce' = [uOnce EXCEPT ![AppProc] = OnceLeft(TRUE)]
          /\ UNCHANGED store
    /\ UNCHANGED <<postCleanup, callOp, callRan, nReg, nDet, launches, chk>>
    /\ UNCHANGED <<now, steps, txn, mpc, currentVer, idx, finalVersion, mErr,
                   applied, preStore, rView, rAt>>
    /\ UNCHANGED guardVars
    /\ UNCHANGED kvVars
    /\ UNCHANGED closeVars
    /\ UNCHANGED onceVars
    /\ UNCHANGED initVars
    /\ UNCHANGED lockVars
    /\ UNCHANGED acVars
    /\ UNCHANGED urlVars
    /\ UNCHANGED svcVars

\* SetPostCleanup: the slot is set only while it is nil
SetPostCleanupOverwrites(slot, f) == f

SetPostCleanup(slot, f) == IF slot = "nil" THEN f ELSE slot

\* SetPostCleanup: ErrPostCleanupSet when the slot is set already
SetPostCleanupErr(slot) == slot # "nil"

\* functions a caller may pass to SetPostCleanup itself
Hooks == {"h1", "h2"}

\* App.SetPostCleanup called by a goroutine of the instance (one step: the
\* body runs under postCleanupMu, which orders racing calls)
SetHook(f) ==
    /\ pc[AppProc] \in {"running", "closing"}
    /\ Len(setLog) < MaxSets
    /\ postCleanup' = [postCleanup EXCEPT ![AppProc] = SetPostCleanup(@, f)]
    /\ setLog' = Append(setLog, [f |-> f, ok |-> ~SetPostCleanupErr(postCleanup[AppProc])])
    /\ UNCHANGED <<uOnce, call, callOp, callErr, callRan, nReg, nDet, launches, chk>>
    /\ UNCHANGED <<postRan, closeLog>>
    /\ UNCHANGED <<migVars, guardVars>>
    /\ UNCHANGED kvVars
    /\ UNCHANGED onceVars
    /\ UNCHANGED initVars
    /\ UNCHANGED lockVars
    /\ UNCHANGED acVars
    /\ UNCHANGED urlVars
    /\ UNCHANGED svcVars

\* DeferUpdate after uPrep: the pipeline is registered as post cleanup
DeferRegister(c) ==
    /\ call[c] = "act"
    /\ callOp[c] = "defer"
    /\ postCleanup' = [postCleanup EXCEPT ![AppProc] = SetPostCleanup(@, "payload")]
    /\ setLog' = Append(setLog, [f |-> "payload",
                                 ok |-> ~SetPostCleanupErr(postCleanup[AppProc])])
    /\ UNCHANGED <<postRan, closeLog>>
    /\ nReg' = IF postCleanup[AppProc] = "nil" THEN nReg + 1 ELSE nReg
    /\ uOnce' = [uOnce EXCEPT ![AppProc] = OnceLeft(FALSE)]
    /\ call' = [call EXCEPT ![c] = "returned"]
    /\ UNCHANGED <<callOp, callErr, callRan, nDet, launches, chk>>
    /\ UNCHANGED <<migVars, guardVars>>
    /\ UNCHANGED kvVars
    /\ UNCHANGED onceVars
    /\ UNCHANGED initVars
    /\ UNCHANGED lockVars
    /\ UNCHANGED acVars
    /\ UNCHANGED urlVars
    /\ UNCHANGED svcVars

\* DetachUpdate after uPrep: runUpdateDetached starts the pipeline, or fails
DetachLaunch(c) ==
    /\ call[c] = "act"
    /\ callOp[c] = "detach"
    /\ \/ /\ launches' = launches \cup {LaunchRecord(AppProc, "detached")}
          /\ nDet' = nDet + 1
          /\ uOnce' = [uOnce EXCEPT ![AppProc] = OnceLeft(FALSE)]
          /\ UNCHANGED callErr
       \/ /\ callErr' = [callErr EXCEPT ![c] = "err"]
          /\ uOnce' = [uOnce EXCEPT ![AppProc] = OnceLeft(TRUE)]
          /\ UNCHANGED <<launches, nDet>>
    /\ call' = [call EXCEPT ![c] = "returned"]
    /\ UNCHANGED <<postCleanup, callOp, callRan, nReg, chk>>
    /\ UNCHANGED <<migVars, guardVars>>
    /\ UNCHANGED kvVars
    /\ UNCHANGED closeVars
    /\ UNCHANGED onceVars
    /\ UNCHANGED initVars
    /\ UNCHANGED lockVars
    /\ UNCHANGED acVars
    /\ UNCHANGED urlVars
    /\ UNCHANGED svcVars

(***************************************************************************)
(* CheckForUpdate                                                          *)
(***************************************************************************)
\* the tags the release source can report as latest ("1.2.0" lacks the v)
Releases == {"v0.9.0", "v1.1.0", "v1.10.0", "1.2.0"}

\* semver: major, minor, patch of a valid version, << >> for an invalid one
SemverOf(v) ==
    CASE v = "v0.9.0" -> <<0, 9, 0>>
      [] v = "v1.0.0" -> <<1, 0, 0>>
      [] v = "v1.1.0" -> <<1, 1, 0>>
      [] v = "v1.10.0" -> <<1, 10, 0>>
      [] OTHER -> << >>

\* semver.Compare: an invalid version is less than a valid one and equal to
\* another invalid one
SemverCompare(v, w) ==
    LET a == SemverOf(v)
        b == SemverOf(w)
    IN  IF a = << >> /\ b = << >> THEN 0
        ELSE IF a = << >> THEN -1
        ELSE IF b = << >> THEN 1
        ELSE IF a[1] # b[1] THEN (IF a[1] < b[1] THEN -1 ELSE 1)
        ELSE IF a[2] # b[2] THEN (IF a[2] < b[2] THEN -1 ELSE 1)
        ELSE IF a[3] # b[3] THEN (IF a[3] < b[3] THEN -1 ELSE 1)
        ELSE 0

\* the UpdateConfig calls of CheckForUpdate, each one transaction
CheckUpdatesTwice(avail, t) ==
    << [updateAvailable |-> avail], [lastUpdateCheck |-> t] >>

CheckUpdates(avail, t) ==
    << [updateAvailable |-> avail, lastUpdateCheck |-> t] >>

\* an UpdateConfig function assigning the fields of u
ApplyUpdate(cfg, u) ==
    [f \in DOMAIN cfg |-> IF f \in DOMAIN u THEN u[f] ELSE cfg[f]]

\* CheckForUpdate is called (update --check, the settings page, the auto
\* checker): the development build check, then GetLatestVersion, which fails
\* or reports a tag, then the comparison
\* GetLatestVersion returns an error (the release source fails, or the
\* 8 second deadline of the request passes): CheckForUpdate returns false
\* and the error
FetchFailedReportsUpdate(v, t) ==
    [ChkIdle EXCEPT !.pc = "done", !.ver = v, !.err = "net", !.ret = TRUE,
                    !.contacted = TRUE, !.at = t]

FetchFailed(v, t) ==
    [ChkIdle EXCEPT !.pc = "done", !.ver = v, !.err = "net",
                    !.contacted = TRUE, !.at = t]

CheckBegun(v, t) ==
    IF IsDevBuild(v)
    THEN {[ChkIdle EXCEPT !.pc = "done", !.ver = v, !.err = "dev", !.at = t]}
    ELSE {FetchFailed(v, t)}
         \cup {[ChkIdle EXCEPT !.pc = "commit", !.ver = v, !.latest = l,
                               !.contacted = TRUE, !.at = t,
                               !.ret = SemverCompare(l, v) > 0] : l \in Releases}

CheckBegin ==
    /\ chk.pc \in {"idle", "done"}
    /\ pc[AppProc] = "running" \/ "ac" \in held[AppProc]
    /\ chk' \in CheckBegun(BuildVersion(build[AppProc]), now)
    /\ UNCHANGED <<postCleanup, uOnce, call, callOp, callErr, callRan, nReg, nDet, launches>>
    /\ UNCHANGED <<migVars, guardVars, kvVars>>
    /\ UNCHANGED closeVars
    /\ UNCHANGED onceVars
    /\ UNCHANGED initVars
    /\ UNCHANGED lockVars
    /\ UNCHANGED acVars
    /\ UNCHANGED urlVars
    /\ UNCHANGED svcVars

\* CheckForUpdate: the next UpdateConfig transaction commits (time.Now() is
\* read inside it), or fails; after the last one the call returns
CheckCommit ==
    /\ chk.pc = "commit"
    /\ \/ /\ store.data.present
          /\ LET us == CheckUpdates(chk.ret, now) IN
               /\ store' = [store EXCEPT !.data = ApplyUpdate(@, us[chk.k + 1])]
               /\ chk' = [chk EXCEPT !.k = @ + 1,
                                     !.at = now,
                                     !.written = @ \cup DOMAIN us[chk.k + 1],
                                     !.post = store'.data,
                                     !.pc = IF chk.k + 1 = Len(us) THEN "done" ELSE "commit"]
       \/ /\ chk' = [chk EXCEPT !.pc = "done", !.err = "db", !.ret = FALSE]
          /\ UNCHANGED store
    /\ UNCHANGED <<postCleanup, uOnce, call, callOp, callErr, callRan, nReg, nDet, launches>>
    /\ UNCHANGED <<now, steps, txn, mpc, currentVer, idx, finalVersion, mErr,
                   applied, preStore, rView, rAt>>
    /\ UNCHANGED <<guardVars, kvVars>>
    /\ UNCHANGED closeVars
    /\ UNCHANGED onceVars
    /\ UNCHANGED initVars
    /\ UNCHANGED lockVars
    /\ UNCHANGED acVars
    /\ UNCHANGED urlVars
    /\ UNCHANGED svcVars

\* time passes
Tick ==
    /\ now < MaxNow
    /\ now' = now + 1
    /\ UNCHANGED <<store, steps, txn, mpc, currentVer, idx, finalVersion, mErr,
                   applied, preStore, rView, rAt>>
    /\ UNCHANGED <<guardVars, appVars, kvVars, closeVars>>
    /\ UNCHANGED onceVars
    /\ UNCHANGED initVars
    /\ UNCHANGED lockVars
    /\ UNCHANGED acVars
    /\ UNCHANGED urlVars
    /\ UNCHANGED svcVars

(***************************************************************************)
(* startAutoChecker and its goroutine (times in minutes)                   *)
(***************************************************************************)
UpdateCheckInterval == 1440

Minute == 1

\* the instants the clock is observed at: a multiple of the interval, up to
\* MaxDays intervals after the first start, and a minute before and after it
MaxDays == 2

TimePoints ==
    {t \in {k * UpdateCheckInterval + j * Minute :
                k \in 0..MaxDays, j \in {0 - 1, 0, 1}} : t >= 0}

\* startAutoChecker: with notifications on and the last check at least the
\* interval ago it calls CheckForUpdate before starting the goroutine
StartChecks(cfg, t) ==
    cfg.updateNotifications /\ t - cfg.lastUpdateCheck >= UpdateCheckInterval

\* startAutoChecker: the delay of the goroutine's timer
InitialDelayFull(cfg, t) == UpdateCheckInterval

InitialDelay(cfg, t) ==
    IF cfg.updateNotifications /\ ~(t - cfg.lastUpdateCheck >= UpdateCheckInterval)
    THEN (cfg.lastUpdateCheck + UpdateCheckInterval) - t
    ELSE UpdateCheckInterval

\* the goroutine's check helper: whether it calls CheckForUpdate
CheckDueIgnoresFlag(cfg, t) ==
    t - cfg.lastUpdateCheck >= UpdateCheckInterval - Minute

CheckDue(cfg, t) ==
    cfg.updateNotifications
        /\ t - cfg.lastUpdateCheck >= UpdateCheckInterval - Minute

\* time.NewTicker(UpdateCheckInterval) at time t: its first tick
NewTickerMinute(t) == t + Minute

NewTicker(t) == t + UpdateCheckInterval

\* what the start or a firing found and did
AcRecord(kind, cfg, read, n) ==
    [kind |-> kind, at |-> now, read |-> read,
     notif |-> cfg.updateNotifications, since |-> now - cfg.lastUpdateCheck,
     n |-> n]

\* Init reaches startAutoChecker with the config it has just read: nothing on
\* a development build; otherwise the check at start when one is due (Init
\* waits for it), or the goroutine with its timer and the cleanup
AcStart ==
    /\ pc[AppProc] = "autocheck"
    /\ ac.pc = "off"
    /\ store.data.present
    /\ LET v == BuildVersion(build[AppProc])
           cfg == store.data
       IN  IF IsDevBuild(v)
           THEN /\ pc' = [pc EXCEPT ![AppProc] = "running"]
                /\ UNCHANGED <<held, cleanup, chk, acVars>>
           ELSE IF StartChecks(cfg, now)
           THEN /\ chk.pc \in {"idle", "done"}
                /\ chk' \in CheckBegun(v, now)
                /\ ac' = [pc |-> "startwait", kind |-> "start", due |-> 0]
                /\ acLog' = <<AcRecord("start", cfg, TRUE, 1)>>
                /\ UNCHANGED <<pc, held, cleanup>>
           ELSE /\ ac' = [pc |-> "timer", kind |-> "start",
                          due |-> now + InitialDelay(cfg, now)]
                /\ acLog' = <<AcRecord("start", cfg, TRUE, 0)>>
                /\ held' = [held EXCEPT ![AppProc] = @ \cup {"ac"}]
                /\ cleanup' = [cleanup EXCEPT ![AppProc] = Append(@, "ac")]
                /\ pc' = [pc EXCEPT ![AppProc] = "running"]
                /\ UNCHANGED chk
    /\ UNCHANGED <<xdg, build, fsVars, instVars, termed>>
    /\ UNCHANGED <<migVars, kvVars, closeVars, onceVars, initVars, lockVars>>
    /\ UNCHANGED <<postCleanup, uOnce, call, callOp, callErr, callRan, nReg, nDet,
                   launches>>
    /\ UNCHANGED urlVars
    /\ UNCHANGED svcVars

\* startAutoChecker: the check at start has returned (an error is only
\* logged); the goroutine starts with a timer of the full interval, the
\* cleanup is added and Init goes on
AcStartReturn ==
    /\ pc[AppProc] = "autocheck"
    /\ ac.pc = "startwait"
    /\ chk.pc = "done"
    /\ ac' = [pc |-> "timer", kind |-> "start", due |-> now + UpdateCheckInterval]
    /\ held' = [held EXCEPT ![AppProc] = @ \cup {"ac"}]
    /\ cleanup' = [cleanup EXCEPT ![AppProc] = Append(@, "ac")]
    /\ pc' = [pc EXCEPT ![AppProc] = "running"]
    /\ chk' = ChkIdle
    /\ UNCHANGED <<xdg, build, fsVars, instVars, termed, acLog>>
    /\ UNCHANGED <<migVars, kvVars, closeVars, onceVars, initVars, lockVars>>
    /\ UNCHANGED <<postCleanup, uOnce, call, callOp, callErr, callRan, nReg, nDet,
                   launches>>
    /\ UNCHANGED urlVars
    /\ UNCHANGED svcVars

\* the goroutine: the timer or the ticker fires and the check helper runs:
\* ViewConfig (an error is logged and the helper returns), then CheckForUpdate
\* when a check is due; after the timer the ticker is created once the
\* helper has returned, a ticker keeps its period
AcFire ==
    /\ ac.pc \in {"timer", "ticker"}
    /\ "ac" \in held[AppProc]
    /\ now = ac.due
    /\ chk.pc \in {"idle", "done"}
    /\ LET k == IF ac.pc = "timer" THEN "timer" ELSE "tick"
           cfg == store.data
       IN  \E read \in {r \in BOOLEAN : r => cfg.present} :
             IF read /\ CheckDue(cfg, now)
             THEN /\ chk' \in CheckBegun(BuildVersion(build[AppProc]), now)
                  /\ ac' = [pc |-> "wait", kind |-> k,
                            due |-> IF k = "tick" THEN ac.due + UpdateCheckInterval
                                    ELSE 0]
                  /\ acLog' = Append(acLog, AcRecord(k, cfg, TRUE, 1))
             ELSE /\ ac' = [pc |-> "ticker", kind |-> k,
                            due |-> IF k = "tick" THEN ac.due + UpdateCheckInterval
                                    ELSE NewTicker(now)]
                  /\ acLog' = Append(acLog,
                                 IF cfg.present THEN AcRecord(k, cfg, read, 0)
                                 ELSE [kind |-> k, at |-> now, read |-> FALSE,
                                       notif |-> FALSE, since |-> 0, n |-> 0])
                  /\ UNCHANGED chk
    /\ UNCHANGED <<postCleanup, uOnce, call, callOp, callErr, callRan, nReg, nDet,
                   launches>>
    /\ UNCHANGED <<migVars, guardVars, kvVars, closeVars, onceVars, initVars,
                   lockVars>>
    /\ UNCHANGED urlVars
    /\ UNCHANGED svcVars

\* the goroutine: CheckForUpdate has returned (an error is only logged); it
\* waits on the ticker, which it creates now when the timer had fired
AcReturn ==
    /\ ac.pc = "wait"
    /\ chk.pc = "done"
    /\ ac' = [pc |-> "ticker", kind |-> ac.kind,
              due |-> IF ac.kind = "tick" THEN ac.due ELSE NewTicker(now)]
    /\ chk' = ChkIdle
    /\ UNCHANGED acLog
    /\ UNCHANGED <<postCleanup, uOnce, call, callOp, callErr, callRan, nReg, nDet,
                   launches>>
    /\ UNCHANGED <<migVars, guardVars, kvVars, closeVars, onceVars, initVars,
                   lockVars>>
    /\ UNCHANGED urlVars
    /\ UNCHANGED svcVars

\* a timer or ticker of the goroutine is running
AcArmed == ac.pc \in {"timer", "ticker"} \/ (ac.pc = "wait" /\ ac.kind = "tick")

\* time passes, up to the next deadline of the goroutine
Elapse ==
    /\ \E t \in TimePoints :
         /\ t > now
         /\ AcArmed => t <= ac.due
         /\ now' = t
    /\ UNCHANGED <<store, steps, txn, mpc, currentVer, idx, finalVersion, mErr,
                   applied, preStore, rView, rAt>>
    /\ UNCHANGED <<guardVars, appVars, kvVars, closeVars, onceVars, initVars,
                   lockVars, acVars>>
    /\ UNCHANGED urlVars
    /\ UNCHANGED svcVars

(***************************************************************************)
(* getBaseURL                                                              *)
(***************************************************************************)
\* hosts and ports a config can hold, and values of the --port flag
Hosts == {"", "localhost", "example.org"}

Ports == {0, 80, 443, 8080}

\* fmt.Sprintf("%s://%s%s", scheme, host, "" or ":<port>")
GetBaseURLKeepsPort(cfg) ==
    LET host == IF cfg.host # "" THEN cfg.host ELSE "localhost"
        port == IF cfg.proxyPort # 0 THEN cfg.proxyPort ELSE cfg.port
        scheme == IF port = 443 THEN "https" ELSE "http"
    IN  scheme \o "://" \o host \o ":" \o ToString(port)

GetBaseURL(cfg) ==
    LET host == IF cfg.host # "" THEN cfg.host ELSE "localhost"
        port == IF cfg.proxyPort # 0 THEN cfg.proxyPort ELSE cfg.port
        hidePort == port = 80 \/ port = 443
        scheme == IF port = 443 THEN "https" ELSE "http"
    IN  scheme \o "://" \o host \o (IF hidePort THEN "" ELSE ":" \o ToString(port))

\* "service set": one config.Update with the flags that were given
ServiceSet ==
    /\ store.data.present
    /\ \E h \in Hosts, p \in Ports, x \in Ports :
         store' = [store EXCEPT !.data.host = h, !.data.port = p,
                                !.data.proxyPort = x]
    /\ UNCHANGED <<now, steps, txn, mpc, currentVer, idx, finalVersion, mErr,
                   applied, preStore, rView, rAt>>
    /\ UNCHANGED <<guardVars, appVars, kvVars, closeVars, onceVars, initVars,
                   lockVars, acVars, urlVars>>
    /\ UNCHANGED svcVars

\* Init: the config is read, a --port flag other than 0 replaces its port,
\* and getBaseURL gives App.BaseURL
DeriveBaseURL ==
    /\ store.data.present
    /\ \E oPort \in Ports :
         LET cfg == IF oPort # 0 THEN [store.data EXCEPT !.port = oPort]
                    ELSE store.data
         IN  baseURL' = [cfg |-> cfg, url |-> GetBaseURL(cfg)]
    /\ UNCHANGED <<migVars, guardVars, appVars, kvVars, closeVars, onceVars,
                   initVars, lockVars, acVars>>
    /\ UNCHANGED svcVars

(***************************************************************************)
(* The service: "service run", the after-listen hook, the restart          *)
(* endpoints (instance AppProc)                                            *)
(***************************************************************************)
\* the after-listen hook's config.Update function
AfterListenConfig(cfg) == [cfg EXCEPT !.startCounter = @ + 1]

\* "service run": the config is read, the server is made and Listen binds
\* the socket and calls the after-listen hook (READY=1 to systemd, the start
\* counter incremented) before it serves; Listen then blocks
Listen ==
    /\ pc[AppProc] = "running"
    /\ ~svc.listening
    /\ store.data.present
    /\ store.data.startCounter < MaxListens
    /\ store' = [store EXCEPT !.data = AfterListenConfig(@)]
    /\ svc' = [svc EXCEPT !.listening = TRUE, !.listenedSince = TRUE]
    /\ UNCHANGED <<now, steps, txn, mpc, currentVer, idx, finalVersion, mErr,
                   applied, preStore, rView, rAt>>
    /\ UNCHANGED <<guardVars, appVars, kvVars, closeVars, onceVars, initVars,
                   lockVars, acVars, urlVars>>

\* the restart handler's config.Update function
RestartConfigKeeps(cfg) == cfg

RestartConfig(cfg) == [cfg EXCEPT !.startCounter = 0]

\* POST /settings/restart served by the handler goroutine c with the body
\* {"update": update}: when the counter cannot be stored the answer is 500 and
\* nothing else happens; else the counter is zeroed, 202 is written, and the
\* handler calls DetachUpdate (update asked for on a release build) or starts
\* a goroutine that calls Server.Shutdown
PostRestart(c, update) ==
    /\ pc[AppProc] = "running"
    /\ svc.listening
    /\ call[c] \in {"idle", "returned"}
    /\ store.data.present
    /\ LET v == BuildVersion(build[AppProc])
           doUpdate == update /\ ~IsDevBuild(v)
       IN \/ UNCHANGED <<store, svc, uOnce, call, callOp, callErr, callRan>>
          \/ /\ store' = [store EXCEPT !.data = RestartConfig(@)]
             /\ svc' = [svc EXCEPT !.owed = TRUE,
                                   !.requested = TRUE, !.listenedSince = FALSE,
                                   !.reqVer = IF doUpdate THEN v ELSE "",
                                   !.repl = "none", !.status = NoStatus,
                                   !.shutdown = @ \/ ~doUpdate]
             /\ IF doUpdate
                THEN OnceDo(c, "detach")
                ELSE UNCHANGED <<uOnce, call, callOp, callErr, callRan>>
    /\ UNCHANGED <<postCleanup, nReg, nDet, launches, chk>>
    /\ UNCHANGED <<now, steps, txn, mpc, currentVer, idx, finalVersion, mErr,
                   applied, preStore, rView, rAt>>
    /\ UNCHANGED <<guardVars, kvVars, closeVars, onceVars, initVars,
                   lockVars, acVars, urlVars>>

\* the answer of GET /settings/restart-status
RestartStatus(cfg, v) ==
    [restarted |-> cfg.startCounter > 0,
     updated |-> cfg.preUpdateVersion # "" /\ cfg.preUpdateVersion # v]

\* GET /settings/restart-status is served; history: the answer the
\* replacement gave
GetRestartStatus ==
    /\ pc[AppProc] = "running"
    /\ svc.listening
    /\ store.data.present
    /\ LET r == RestartStatus(store.data, BuildVersion(build[AppProc])) IN
         svc' = IF svc.repl = "current"
                THEN [svc EXCEPT !.status = [asked |-> TRUE, restarted |-> r.restarted,
                                             updated |-> r.updated]]
                ELSE svc
    /\ UNCHANGED <<migVars, guardVars, appVars, kvVars, closeVars, onceVars,
                   initVars, lockVars, acVars, urlVars>>

\* Listen returns: Server.Shutdown was called by the goroutine of the restart
\* handler, or systemd stops the unit (TERM to the listening process); the
\* handlers being served finish first, then the Action returns and main runs
\* the deferred Close
ListenReturns ==
    /\ svc.listening
    /\ svc.shutdown \/ ipc = "stopping"
    /\ Finish(AppProc)

\* the unit of the service is installed and enabled: systemd starts and
\* stops the process from now on
EnableUnit ==
    /\ ~svc.managed
    /\ pc[AppProc] = "off"
    /\ ipc = "idle"
    /\ svc' = [svc EXCEPT !.managed = TRUE]
    /\ UNCHANGED <<migVars, guardVars, appVars, kvVars, closeVars, onceVars,
                   initVars, lockVars, acVars, urlVars>>

\* the payload DetachUpdate launched runs install.sh; its service pre-checks:
\* an active unit (the process has sent READY=1) is stopped, and systemctl
\* stop returns when the process is gone
ServiceStop ==
    /\ ipc = "idle"
    /\ nDet > 0
    /\ ~svc.ran
    /\ ipc' = IF svc.managed /\ svc.listening /\ pc[AppProc] # "off"
              THEN "stopping" ELSE "stopped"
    /\ svc' = [svc EXCEPT !.ran = TRUE]
    /\ UNCHANGED <<installed, backup, exHeld>>
    /\ UNCHANGED <<xdg, procVars, fsVars, termed>>
    /\ UNCHANGED <<migVars, appVars, kvVars, closeVars, onceVars, initVars,
                   lockVars, acVars, urlVars>>

ServiceStopped ==
    /\ ipc = "stopping"
    /\ pc[AppProc] = "off"
    /\ ipc' = "stopped"
    /\ UNCHANGED <<installed, backup, exHeld>>
    /\ UNCHANGED <<xdg, procVars, fsVars, termed>>
    /\ UNCHANGED <<migVars, appVars, kvVars, closeVars, onceVars, initVars,
                   lockVars, acVars, urlVars, svcVars>>

(***************************************************************************)
(* install.sh                                                              *)
(***************************************************************************)
\* TERM reaches a process: the listening service shuts down through Close, a
\* process without a handler for the signal is terminated, and then its
\* marker file stays
DeliverTerm(p) ==
    /\ p \in termed
    /\ \/ /\ pc[p] = "running"
          /\ pc' = [pc EXCEPT ![p] = "closing"]
          /\ termed' = termed \ {p}
          /\ MainClose(p)
          /\ UNCHANGED <<build, held, cleanup, closeLog>>
       \/ /\ Exit(p)
          /\ closeLog' = IF p = AppProc THEN << >> ELSE closeLog
          /\ UNCHANGED onceVars
    /\ UNCHANGED <<xdg, fsVars, instVars>>
    /\ UNCHANGED <<migVars, appVars, setLog, postRan>>
    /\ UNCHANGED kvVars
    /\ UNCHANGED initVars
    /\ UNCHANGED lockVars
    /\ UNCHANGED acVars
    /\ UNCHANGED urlVars
    /\ UNCHANGED svcVars

\* the script runs (install.sh [VERSION]) where no unit of the service is
\* active (idle), or has stopped the active unit first (stopped): under set -u the expansion of an
\* unset XDG_RUNTIME_DIR ends it at once; otherwise the current binary is
\* copied for rollback and install -Dm755 writes the new one
InstallBinary ==
    /\ ipc \in {"idle", "stopped"}
    /\ IF xdg = "unset"
       THEN UNCHANGED <<instVars, exeNow>>
       ELSE /\ backup' = installed
            /\ exeNow' = {}
            /\ \E b \in Builds : installed' = b
            /\ ipc' = "signal"
            /\ UNCHANGED exHeld
    /\ UNCHANGED <<xdg, procVars, fsVars, termed>>
    /\ UNCHANGED <<migVars, appVars, closeVars>>
    /\ UNCHANGED kvVars
    /\ UNCHANGED onceVars
    /\ UNCHANGED initVars
    /\ UNCHANGED lockFile
    /\ UNCHANGED acVars
    /\ UNCHANGED urlVars
    /\ UNCHANGED svcVars

\* the marker files the script finds in its INSTANCES_DIR
ShMarkers == IF SameInstancesDir THEN markers ELSE {}

\* the pids TERM is sent to: those among the markers whose process exists
\* and whose /proc/<pid>/exe resolves to the file at APP_BIN
Signalled == {p \in ShMarkers : pc[p] # "off" /\ p \in exeNow}

\* the runtime directories and the lock file are created if missing; then
\* TERM is sent to the instances found
SignalInstances ==
    /\ ipc = "signal"
    /\ termed' = termed \cup Signalled
    /\ ipc' = "open"
    /\ UNCHANGED <<installed, backup, exHeld>>
    /\ UNCHANGED <<xdg, procVars, fsVars>>
    /\ UNCHANGED <<migVars, appVars, closeVars>>
    /\ UNCHANGED kvVars
    /\ UNCHANGED onceVars
    /\ UNCHANGED initVars
    /\ lockFile' = (lockFile \/ SameLockFile)
    /\ UNCHANGED exeNow
    /\ UNCHANGED acVars
    /\ UNCHANGED urlVars
    /\ UNCHANGED svcVars

\* exec 9>"$LOCK_FILE": the file is truncated, its mtime is now
OpenLockFile ==
    /\ ipc = "open"
    /\ fresh' = {}
    /\ ipc' = "flock"
    /\ UNCHANGED <<installed, backup, exHeld, markers>>
    /\ UNCHANGED <<xdg, procVars, termed>>
    /\ UNCHANGED <<migVars, appVars, closeVars>>
    /\ UNCHANGED kvVars
    /\ UNCHANGED onceVars
    /\ UNCHANGED initVars
    /\ lockFile' = (lockFile \/ SameLockFile)
    /\ UNCHANGED exeNow
    /\ UNCHANGED acVars
    /\ UNCHANGED urlVars
    /\ UNCHANGED svcVars

\* flock -x -w 120 is granted
LockExclusive ==
    /\ ipc = "flock"
    /\ CanLockExclusive
    /\ exHeld' = TRUE
    /\ ipc' = "check"
    /\ UNCHANGED <<installed, backup>>
    /\ UNCHANGED <<xdg, procVars, fsVars, termed>>
    /\ UNCHANGED <<migVars, appVars, closeVars>>
    /\ UNCHANGED kvVars
    /\ UNCHANGED onceVars
    /\ UNCHANGED initVars
    /\ UNCHANGED lockVars
    /\ UNCHANGED acVars
    /\ UNCHANGED urlVars
    /\ UNCHANGED svcVars

\* fatalf: exit 1, on_exit rolls the binary back (mv of the copy: a new
\* file at the install path), descriptor 9 is closed
Fatal ==
    /\ installed' = backup
    /\ backup' = "none"
    /\ exeNow' = {}
    /\ exHeld' = FALSE
    /\ ipc' = "idle"

\* flock -x -w 120 times out
LockExclusiveTimeout ==
    /\ ipc = "flock"
    /\ ~CanLockExclusive
    /\ Fatal
    /\ UNCHANGED <<xdg, procVars, fsVars, termed>>
    /\ UNCHANGED <<migVars, appVars, closeVars>>
    /\ UNCHANGED kvVars
    /\ UNCHANGED onceVars
    /\ UNCHANGED initVars
    /\ UNCHANGED lockFile
    /\ UNCHANGED acVars
    /\ UNCHANGED urlVars
    /\ UNCHANGED svcVars

\* final safety check: a marker newer than the lock file aborts the script
SafetyCheck ==
    /\ ipc = "check"
    /\ IF ShMarkers \cap fresh # {}
       THEN Fatal
       ELSE ipc' = "migrate" /\ UNCHANGED <<installed, backup, exHeld, exeNow>>
    /\ UNCHANGED <<xdg, procVars, fsVars, termed>>
    /\ UNCHANGED <<migVars, appVars, closeVars>>
    /\ UNCHANGED kvVars
    /\ UNCHANGED onceVars
    /\ UNCHANGED initVars
    /\ UNCHANGED lockFile
    /\ UNCHANGED acVars
    /\ UNCHANGED urlVars
    /\ UNCHANGED svcVars

\* "$APP_BIN" -m: the migrator instance starts; Init skips mguard
LaunchMigrator ==
    /\ ipc = "migrate"
    /\ pc[MigId] = "off"
    /\ pc' = [pc EXCEPT ![MigId] = InitEntry(MigId)]
    /\ build' = [build EXCEPT ![MigId] = installed]
    /\ ipc' = "wait"
    /\ UNCHANGED <<installed, backup, exHeld>>
    /\ UNCHANGED <<xdg, cleanup, held, fsVars, termed>>
    /\ UNCHANGED <<migVars, appVars, closeVars>>
    /\ UNCHANGED kvVars
    /\ UNCHANGED onceVars
    /\ UNCHANGED initVars
    /\ exeNow' = exeNow \cup {MigId}
    /\ UNCHANGED lockFile
    /\ UNCHANGED acVars
    /\ UNCHANGED urlVars
    /\ UNCHANGED svcVars

\* the migrator instance has exited; the lock is released (exec 9>&-) and the
\* script ends
ReleaseLock ==
    /\ ipc = "wait"
    /\ pc[MigId] = "off"
    /\ exHeld' = FALSE
    /\ backup' = "none"
    /\ ipc' = "idle"
    /\ UNCHANGED installed
    /\ UNCHANGED <<xdg, procVars, fsVars, termed>>
    /\ UNCHANGED <<migVars, appVars, closeVars>>
    /\ UNCHANGED kvVars
    /\ UNCHANGED onceVars
    /\ UNCHANGED initVars
    /\ UNCHANGED lockVars
    /\ UNCHANGED acVars
    /\ UNCHANGED urlVars
    /\ UNCHANGED svcVars

(***************************************************************************)
(* helpers.go: View, Upsert, Update on one key                             *)
(***************************************************************************)
Writers == 1..NumWriters

\* the value type T of the key, and json.Marshal / json.Unmarshal of it
Marshal(v) == <<v.a, v.b>>
Unmarshal(buf) == [a |-> buf[1], b |-> buf[2]]

\* txn.Put: the key holds the bytes
Stored(buf) == [present |-> TRUE, bytes |-> buf]

\* defaultFn()
Default == [a |-> 0, b |-> 0]

\* updateFn(&value): "inc" rewrites both fields, "fail" returns an error
ApplyFn(fn, v) ==
    IF fn = "inc" THEN [err |-> FALSE, val |-> [a |-> v.a + 1, b |-> v.a + 1]]
    ELSE [err |-> TRUE, val |-> v]

\* TxnUpsert: created is set when TxnGetAndUnmarshal reports not found
CreatedAlways(t) == TRUE

Created(t) == ~t.present

\* TxnUpsert on the transaction's value t of the key; putOk: txn.Put succeeds
TxnUpsertIgnoresFnError(t, fn, putOk) ==
    LET v0 == IF Created(t) THEN Default ELSE Unmarshal(t.bytes)
        r == ApplyFn(fn, v0)
    IN  IF ~putOk THEN [err |-> TRUE, created |-> FALSE, t |-> t]
        ELSE [err |-> FALSE, created |-> Created(t), t |-> Stored(Marshal(r.val))]

TxnUpsert(t, fn, putOk) ==
    LET v0 == IF Created(t) THEN Default ELSE Unmarshal(t.bytes)
        r == ApplyFn(fn, v0)
    IN  IF r.err \/ ~putOk THEN [err |-> TRUE, created |-> FALSE, t |-> t]
        ELSE [err |-> FALSE, created |-> Created(t), t |-> Stored(Marshal(r.val))]

\* TxnUpdate: a missing key is an error
TxnUpdate(t, fn, putOk) ==
    IF ~t.present THEN [err |-> TRUE, created |-> FALSE, t |-> t]
    ELSE LET r == ApplyFn(fn, Unmarshal(t.bytes))
         IN  IF r.err \/ ~putOk THEN [err |-> TRUE, created |-> FALSE, t |-> t]
             ELSE [err |-> FALSE, created |-> FALSE, t |-> Stored(Marshal(r.val))]

\* Upsert / Update: db.Update begins the write transaction (LMDB has one
\* writer at a time, over all processes)
WBegin(w, op, fn) ==
    /\ wpc[w] \in {"idle", "ret"}
    /\ wlock = 0
    /\ fn = "inc" => (kv.present => kv.bytes[1] < MaxVal)
    /\ wlock' = w
    /\ wtxn' = kv
    /\ wpc' = [wpc EXCEPT ![w] = "body"]
    /\ wop' = [wop EXCEPT ![w] = op]
    /\ wfn' = [wfn EXCEPT ![w] = fn]
    /\ wpre' = [wpre EXCEPT ![w] = kv]
    /\ UNCHANGED <<kv, wpost, wres, rpc, rsnap, rseen, rres, hist>>
    /\ UNCHANGED <<migVars, guardVars, appVars, closeVars>>
    /\ UNCHANGED onceVars
    /\ UNCHANGED initVars
    /\ UNCHANGED lockVars
    /\ UNCHANGED acVars
    /\ UNCHANGED urlVars
    /\ UNCHANGED svcVars

\* the function passed to db.Update runs TxnUpsert / TxnUpdate
WBody(w) ==
    /\ wpc[w] = "body"
    /\ \E putOk \in BOOLEAN :
          LET r == IF wop[w] = "upsert" THEN TxnUpsert(wtxn, wfn[w], putOk)
                   ELSE TxnUpdate(wtxn, wfn[w], putOk)
          IN  /\ wtxn' = r.t
              /\ wres' = [wres EXCEPT ![w] = [err |-> r.err, created |-> r.created]]
    /\ wpc' = [wpc EXCEPT ![w] = "end"]
    /\ UNCHANGED <<kv, wlock, wop, wfn, wpre, wpost, rpc, rsnap, rseen, rres, hist>>
    /\ UNCHANGED <<migVars, guardVars, appVars, closeVars>>
    /\ UNCHANGED onceVars
    /\ UNCHANGED initVars
    /\ UNCHANGED lockVars
    /\ UNCHANGED acVars
    /\ UNCHANGED urlVars
    /\ UNCHANGED svcVars

\* db.Update ends: an error aborts the transaction, otherwise it commits (the
\* commit itself can fail); the call returns
WEnd(w) ==
    /\ wpc[w] = "end"
    /\ \E commitOk \in BOOLEAN :
          /\ kv' = IF ~wres[w].err /\ commitOk THEN Commit(kv, wtxn) ELSE Abort(kv, wtxn)
          /\ wres' = [wres EXCEPT ![w].err = @ \/ ~commitOk]
    /\ wtxn' = kv'
    /\ wlock' = 0
    /\ wpost' = [wpost EXCEPT ![w] = kv']
    /\ hist' = hist \cup {kv'}
    /\ wpc' = [wpc EXCEPT ![w] = "ret"]
    /\ UNCHANGED <<wop, wfn, wpre, rpc, rsnap, rseen, rres>>
    /\ UNCHANGED <<migVars, guardVars, appVars, closeVars>>
    /\ UNCHANGED onceVars
    /\ UNCHANGED initVars
    /\ UNCHANGED lockVars
    /\ UNCHANGED acVars
    /\ UNCHANGED urlVars
    /\ UNCHANGED svcVars

\* what a read transaction sees of the key: the committed value, whatever an
\* open write transaction holds
SnapshotDirty(committed, working) == working

Snapshot(committed, working) == committed

\* View: db.View begins a read transaction
VBegin ==
    /\ rpc \in {"idle", "ret"}
    /\ rsnap' = Snapshot(kv, IF wlock = 0 THEN kv ELSE wtxn)
    /\ rseen' = kv
    /\ rpc' = "read"
    /\ UNCHANGED <<kv, wtxn, wlock, wpc, wop, wfn, wpre, wpost, wres, rres, hist>>
    /\ UNCHANGED <<migVars, guardVars, appVars, closeVars>>
    /\ UNCHANGED onceVars
    /\ UNCHANGED initVars
    /\ UNCHANGED lockVars
    /\ UNCHANGED acVars
    /\ UNCHANGED urlVars
    /\ UNCHANGED svcVars

\* what View returns for the transaction's value of the key
ViewResult(t) ==
    IF t.present THEN [found |-> TRUE, val |-> Unmarshal(t.bytes)]
    ELSE [found |-> FALSE, val |-> Default]

\* View: TxnGetAndUnmarshal, the transaction ends, View returns
VReturn ==
    /\ rpc = "read"
    /\ rres' = ViewResult(rsnap)
    /\ rpc' = "ret"
    /\ UNCHANGED <<kv, wtxn, wlock, wpc, wop, wfn, wpre, wpost, wres, rsnap, rseen, hist>>
    /\ UNCHANGED <<migVars, guardVars, appVars, closeVars>>
    /\ UNCHANGED onceVars
    /\ UNCHANGED initVars
    /\ UNCHANGED lockVars
    /\ UNCHANGED acVars
    /\ UNCHANGED urlVars
    /\ UNCHANGED svcVars

(***************************************************************************)
(* Specifications                                                          *)
(***************************************************************************)
MigQuiet ==
    /\ steps = << >>
    /\ txn = EmptyStore
    /\ mpc = "idle"
    /\ currentVer = ""
    /\ idx = 0
    /\ finalVersion = ""
    /\ mErr = "nil"
    /\ applied = << >>
    /\ preStore = EmptyStore
    /\ rView = EmptyStore
    /\ rAt = "none"

ProcsOff ==
    /\ pc = [p \in AllProcs |-> "off"]
    /\ build = [p \in AllProcs |-> "none"]
    /\ cleanup = [p \in AllProcs |-> << >>]
    /\ held = [p \in AllProcs |-> {}]
    /\ markers = {}
    /\ fresh = {}
    /\ ipc = "idle"
    /\ backup = "none"
    /\ exHeld = FALSE
    /\ termed = {}

AppQuietWith(s) ==
    /\ svc = s
    /\ postCleanup = [p \in AllProcs |-> "nil"]
    /\ uOnce = [p \in AllProcs |-> "new"]
    /\ call = [c \in Callers |-> "idle"]
    /\ callOp = [c \in Callers |-> "defer"]
    /\ callErr = [c \in Callers |-> "nil"]
    /\ callRan = [c \in Callers |-> FALSE]
    /\ nReg = 0
    /\ nDet = 0
    /\ launches = {}
    /\ chk = ChkIdle
    /\ setLog = << >>
    /\ postRan = "nil"
    /\ closeLog = << >>
    /\ cleanupOnce = "new"
    /\ closer = "none"
    /\ closeSeen = {}
    /\ nPost = 0
    /\ flockWait = {}
    /\ initErr = "nil"
    /\ lockFile = FALSE
    /\ exeNow = {}
    /\ ac = AcOff
    /\ acLog = << >>
    /\ baseURL = [cfg |-> NoData, url |-> ""]

AppQuiet == AppQuietWith(SvcOff)

KvQuiet ==
    /\ kv = NoData
    /\ wtxn = NoData
    /\ wlock = 0
    /\ wpc = [w \in Writers |-> "idle"]
    /\ wop = [w \in Writers |-> "upsert"]
    /\ wfn = [w \in Writers |-> "inc"]
    /\ wpre = [w \in Writers |-> NoData]
    /\ wpost = [w \in Writers |-> NoData]
    /\ wres = [w \in Writers |-> [err |-> FALSE, created |-> FALSE]]
    /\ rpc = "idle"
    /\ rsnap = NoData
    /\ rseen = NoData
    /\ rres = ViewResult(NoData)
    /\ hist = {NoData}

\* the migration runner on one store, with a reader and a config writer
MigInit ==
    /\ now \in 0..MaxNow
    /\ store = EmptyStore
    /\ steps = << >>
    /\ txn = EmptyStore
    /\ mpc = "idle"
    /\ currentVer = ""
    /\ idx = 0
    /\ finalVersion = ""
    /\ mErr = "nil"
    /\ applied = << >>
    /\ preStore = EmptyStore
    /\ rView = EmptyStore
    /\ rAt = "none"
    /\ xdg = "set"
    /\ installed = "old"
    /\ ProcsOff
    /\ AppQuiet
    /\ KvQuiet

MigNext ==
    \/ MigrateNew
    \/ \E id \in StepIds : Add(id)
    \/ MigrateBegin
    \/ ApplyStepOk
    \/ ApplyStepFail
    \/ PutVersion
    \/ MigrateCommit
    \/ MigrateAbort
    \/ ReaderView
    \/ ToggleNotify

SpecMig == MigInit /\ [][MigNext]_vars

\* instances, the installer and its migrator on one machine
GuardInit ==
    /\ now = 0
    /\ store = EmptyStore
    /\ MigQuiet
    /\ xdg \in {"set", "empty", "unset"}
    /\ installed = "old"
    /\ ProcsOff
    /\ AppQuiet
    /\ KvQuiet

GuardNext ==
    \/ \E p \in Procs : Start(p)
    \/ \E p \in Procs : MguardLock(p)
    \/ \E p \in Procs : MguardTimeout(p)
    \/ \E p \in Procs : FlockLate(p)
    \/ \E p \in Procs : FlockLateReturn(p)
    \/ \E p \in AllProcs : InitFail(p)
    \/ \E p \in Procs : MguardMarker(p)
    \/ \E p \in AllProcs : OpenLog(p)
    \/ \E p \in AllProcs : OpenDB(p)
    \/ \E p \in AllProcs : StartAutoChecker(p)
    \/ \E p \in AllProcs : Finish(p)
    \/ \E p \in AllProcs : RunCleanup(p)
    \/ \E p \in AllProcs : CloseEnd(p)
    \/ \E p \in Procs : DeliverTerm(p)
    \/ InstallBinary
    \/ SignalInstances
    \/ OpenLockFile
    \/ LockExclusive
    \/ LockExclusiveTimeout
    \/ SafetyCheck
    \/ LaunchMigrator
    \/ ReleaseLock

SpecGuard == GuardInit /\ [][GuardNext]_vars

\* one instance and the goroutines calling its update operations
AppInit ==
    /\ now = 0
    /\ store = EmptyStore
    /\ MigQuiet
    /\ xdg \in {"set", "empty"}
    /\ installed \in {"old", "dev"}
    /\ ProcsOff
    /\ AppQuiet
    /\ KvQuiet

AppNext ==
    \/ Start(AppProc)
    \/ InitFail(AppProc)
    \/ MguardLock(AppProc)
    \/ MguardMarker(AppProc)
    \/ OpenLog(AppProc)
    \/ OpenDB(AppProc)
    \/ StartAutoChecker(AppProc)
    \/ \E c \in Callers, op \in {"defer", "detach"} : CallUpdate(c, op)
    \/ \E c \in Callers : CallUnblock(c)
    \/ \E c \in Callers : UPrep(c)
    \/ \E c \in Callers : DeferRegister(c)
    \/ \E c \in Callers : DetachLaunch(c)
    \/ CheckBegin
    \/ CheckCommit
    \/ Tick
    \/ Finish(AppProc)
    \/ RunCleanup(AppProc)
    \/ CloseEnd(AppProc)
    \/ PostCleanup(AppProc)

SpecApp == AppInit /\ [][AppNext]_vars

\* one instance of a release or development build with its auto checker,
\* over days, and another process toggling the notifications
AcNext ==
    \/ Start(AppProc)
    \/ MguardLock(AppProc)
    \/ MguardMarker(AppProc)
    \/ OpenLog(AppProc)
    \/ OpenDB(AppProc)
    \/ AcStart
    \/ AcStartReturn
    \/ AcFire
    \/ CheckCommit
    \/ AcReturn
    \/ Elapse
    \/ ToggleNotify
    \/ Finish(AppProc)
    \/ RunCleanup(AppProc)
    \/ CloseEnd(AppProc)

AcInit == AppInit /\ xdg = "set"

SpecAC == AcInit /\ [][AcNext]_vars

\* getBaseURL on the configs "service set" can store
UrlInit ==
    /\ now = 0
    /\ store = [EmptyStore EXCEPT !.data = InitialConfig(0)]
    /\ MigQuiet
    /\ xdg = "set"
    /\ installed = "old"
    /\ ProcsOff
    /\ AppQuiet
    /\ KvQuiet

UrlNext ==
    \/ ServiceSet
    \/ DeriveBaseURL

SpecURL == UrlInit /\ [][UrlNext]_vars

\* the service: one process at a time started from the installed binary, its
\* restart endpoints, and install.sh run as the detached payload
SvcInit ==
    /\ now = 0
    /\ store = EmptyStore
    /\ MigQuiet
    /\ xdg = "set"
    /\ installed \in {"old", "dev"}
    /\ ProcsOff
    /\ AppQuiet
    /\ KvQuiet

\* the goroutine serving the one client of the restart endpoints, request
\* after request
Client == 1

\* TERM reaches the service process: once it listens the signal ends Listen
\* and the process goes through Close
TermService ==
    /\ DeliverTerm(AppProc)
    /\ svc.listening => pc'[AppProc] # "off"

SvcNext ==
    \/ EnableUnit
    \/ (ipc # "stopping" /\ Start(AppProc))
    \/ MguardLock(AppProc)
    \/ MguardTimeout(AppProc)
    \/ MguardMarker(AppProc)
    \/ \E p \in {MigId, AppProc} : OpenLog(p)
    \/ \E p \in {MigId, AppProc} : OpenDB(p)
    \/ \E p \in {MigId, AppProc} : StartAutoChecker(p)
    \/ Listen
    \/ \E update \in BOOLEAN : PostRestart(Client, update)
    \/ UPrep(Client)
    \/ DetachLaunch(Client)
    \/ GetRestartStatus
    \/ ListenReturns
    \/ \E p \in {MigId, AppProc} : Finish(p)
    \/ \E p \in {MigId, AppProc} : RunCleanup(p)
    \/ \E p \in {MigId, AppProc} : CloseEnd(p)
    \/ TermService
    \/ ServiceStop
    \/ ServiceStopped
    \/ (ipc = "stopped" /\ InstallBinary)
    \/ SignalInstances
    \/ OpenLockFile
    \/ LockExclusive
    \/ LockExclusiveTimeout
    \/ SafetyCheck
    \/ LaunchMigrator
    \/ ReleaseLock

SpecSvc == SvcInit /\ [][SvcNext]_vars

\* the same with the steps the scheduler and systemd do not postpone for
\* ever: the handler's DetachUpdate call runs on, a server told to shut down
\* or stop ends Listen, Close runs on, the transient unit runs the payload
\* and the script with its migrator instance runs to its end
SpecSvcFair ==
    /\ SvcInit
    /\ [][SvcNext]_vars
    /\ WF_vars(UPrep(Client))
    /\ WF_vars(DetachLaunch(Client))
    /\ WF_vars(ListenReturns)
    /\ WF_vars(RunCleanup(AppProc))
    /\ WF_vars(CloseEnd(AppProc))
    /\ WF_vars(ServiceStop)
    /\ WF_vars(ServiceStopped)
    /\ WF_vars(ipc = "stopped" /\ InstallBinary)
    /\ WF_vars(SignalInstances)
    /\ WF_vars(OpenLockFile)
    /\ WF_vars(LockExclusive)
    /\ WF_vars(LockExclusiveTimeout)
    /\ WF_vars(SafetyCheck)
    /\ WF_vars(LaunchMigrator)
    /\ WF_vars(OpenLog(MigId))
    /\ WF_vars(OpenDB(MigId))
    /\ WF_vars(StartAutoChecker(MigId))
    /\ WF_vars(Finish(MigId))
    /\ WF_vars(RunCleanup(MigId))
    /\ WF_vars(CloseEnd(MigId))
    /\ WF_vars(ReleaseLock)

\* one instance whose goroutines call SetPostCleanup themselves, next to
\* DeferUpdate and DetachUpdate
HookNext ==
    \/ Start(AppProc)
    \/ MguardLock(AppProc)
    \/ MguardMarker(AppProc)
    \/ OpenLog(AppProc)
    \/ OpenDB(AppProc)
    \/ StartAutoChecker(AppProc)
    \/ \E f \in Hooks : SetHook(f)
    \/ \E c \in Callers, op \in {"defer", "detach"} : CallUpdate(c, op)
    \/ \E c \in Callers : CallUnblock(c)
    \/ \E c \in Callers : UPrep(c)
    \/ \E c \in Callers : DeferRegister(c)
    \/ \E c \in Callers : DetachLaunch(c)
    \/ Finish(AppProc)
    \/ RunCleanup(AppProc)
    \/ CloseEnd(AppProc)
    \/ PostCleanup(AppProc)

SpecHook == AppInit /\ [][HookNext]_vars

\* one instance whose goroutines call Close themselves, next to main's
\* deferred Close
CloseNext ==
    \/ Start(AppProc)
    \/ MguardLock(AppProc)
    \/ MguardMarker(AppProc)
    \/ OpenLog(AppProc)
    \/ OpenDB(AppProc)
    \/ StartAutoChecker(AppProc)
    \/ \E c \in Callers, op \in {"defer", "detach"} : CallUpdate(c, op)
    \/ \E c \in Callers : CallUnblock(c)
    \/ \E c \in Callers : UPrep(c)
    \/ \E c \in Callers : DeferRegister(c)
    \/ \E c \in Callers : DetachLaunch(c)
    \/ CloseCall
    \/ MainReturns
    \/ Finish(AppProc)
    \/ RunCleanup(AppProc)
    \/ CloseEnd(AppProc)
    \/ PostCleanup(AppProc)

SpecClose == AppInit /\ [][CloseNext]_vars

\* writers and a reader on one key of an open store
KvInit ==
    /\ now = 0
    /\ store = EmptyStore
    /\ MigQuiet
    /\ xdg = "set"
    /\ installed = "old"
    /\ ProcsOff
    /\ AppQuiet
    /\ KvQuiet

KvNext ==
    \/ \E w \in Writers, op \in {"upsert", "update"}, fn \in {"inc", "fail"} :
          WBegin(w, op, fn)
    \/ \E w \in Writers : WBody(w)
    \/ \E w \in Writers : WEnd(w)
    \/ VBegin
    \/ VReturn

SpecKV == KvInit /\ [][KvNext]_vars

(***************************************************************************)
(* Properties of the migration guard                                       *)
(***************************************************************************)
\* C1: in every interleaving of normal instances and the installer, the
\* migrator runs only while no normal instance holds the shared lock on
\* migrate.lock, and no normal instance completes Acquire (is granted the
\* shared lock) while the installer holds the exclusive lock.
C1_Claim ==
    /\ [](pc[MigId] # "off" => ShHolders = {})
    /\ [][exHeld => ShHolders' \subseteq ShHolders]_vars

\* C2: whenever any process (a normal instance or the migrator) applies a
\* pending migration step when it opens the store, no normal instance holds
\* the shared lock on migrate.lock at that moment.
C2_Claim ==
    [][\A p \in AllProcs :
          (/\ pc[p] = "database"
           /\ pc'[p] = "autocheck"
           /\ MigrateStore(store, BuildSteps(build[p]), now).pending)
          => ShHolders = {}]_vars

(***************************************************************************)
(* Properties of the update operations                                     *)
(***************************************************************************)
\* C3: for any sequence or interleaving of DeferUpdate and DetachUpdate calls
\* on one App the payload is registered or launched at most once in total,
\* at most one call is past the latch, and every call that did not pass it
\* returns no error.
C3_OnceLatch ==
    /\ nReg + nDet <= 1
    /\ Cardinality({c \in Callers : call[c] \in {"prep", "act"}}) <= 1
    /\ \A c \in Callers : (call[c] = "returned" /\ ~callRan[c]) => callErr[c] = "nil"

\* C3 witness: the payload was registered or launched once and a later call
\* has returned without running the function.
C3_Witness ==
    /\ nReg + nDet = 1
    /\ \E c \in Callers : call[c] = "returned" /\ ~callRan[c]

\* C4: for both DeferUpdate and DetachUpdate, when the update payload is
\* launched the store already holds preUpdateVersion equal to the running
\* version.
C4_Claim ==
    \A l \in launches : l.pre = l.ver

\* C5: when teardown invokes the post-cleanup payload registered by
\* DeferUpdate every registered cleanup has finished: the auto-checker is
\* stopped, the store and the logger are closed, the instance marker is removed
\* and the shared lock is dropped.
C5_PostCleanupLast ==
    /\ \A p \in AllProcs :
          pc[p] = "post" => cleanup[p] = << >> /\ held[p] = {} /\ p \notin markers
    /\ \A l \in launches :
          l.kind = "deferred" => l.todo = 0 /\ l.open = {} /\ ~l.marker

\* C5 witness: teardown has invoked the payload registered by DeferUpdate.
C5_Witness ==
    \E l \in launches : l.kind = "deferred"

(***************************************************************************)
(* Properties of the migration runner                                      *)
(***************************************************************************)
InRun == mpc \in {"run", "put", "abort"}

\* C6: a migration run is all-or-nothing. While the run's transaction is open
\* and after a failed run the committed store is the store from before the
\* run (no step's writes, "version" unchanged); after a successful run the
\* writes of every applied step and the new version are there together; a
\* reader's snapshot taken during the run is the pre-run store, one taken
\* after the commit has all of it.
C6_AtomicRun ==
    /\ (InRun \/ mpc = "failed") => store = preStore
    /\ mpc = "done" =>
          /\ store.version = finalVersion
          /\ \A i \in 1..Len(applied) : Written(applied[i], store)
    /\ rAt \in {"run", "put", "abort", "failed"} => rView = preStore
    /\ rAt = "done" =>
          /\ rView.version = finalVersion
          /\ \A i \in 1..Len(applied) : Written(applied[i], rView)

\* a run in which one step was applied and the next one failed, watched by a
\* reader while the transaction was open
C6_Witness ==
    /\ mpc = "failed" /\ mErr = "apply" /\ Len(applied) >= 2
    /\ rAt = "abort" /\ rView = preStore

\* C7 (as claimed): for a declared list s1..sn and a stored version equal to
\* si (empty: i = 0), a successful run invokes exactly s(i+1)..sn in order
\* and leaves "version" = sn.
C7_Claim ==
    mpc = "done" =>
        \A i \in 0..Len(steps) :
            ((i = 0 /\ currentVer = "") \/ (i > 0 /\ steps[i] = currentVer)) =>
                /\ applied = SubSeq(steps, i + 1, Len(steps))
                /\ Len(steps) > 0 => store.version = steps[Len(steps)]

\* C8: a non-empty stored version that is no declared step's id makes the run
\* fail with the unknown-version error, without invoking any step and leaving
\* the store as it was.
C8_UnknownVersion ==
    (mpc \in {"run", "put", "abort", "done", "failed"}
        /\ currentVer # "" /\ ~Found(steps, currentVer)) =>
            /\ mpc \in {"abort", "failed"}
            /\ mErr = "unknown"
            /\ applied = << >>
            /\ store = preStore

\* a run that failed on a stored version missing from a non-empty list
C8_Witness ==
    /\ mpc = "failed" /\ mErr = "unknown"
    /\ Len(steps) >= 1 /\ store.version # "" /\ store.data.present

\* C9 (as claimed): a run on a store whose version is the last declared step's
\* id invokes no step and leaves the version marker and the config unchanged.
C9_Claim ==
    (mpc = "done" /\ Len(steps) > 0 /\ currentVer = steps[Len(steps)]) =>
        /\ applied = << >>
        /\ store = preStore

\* C10: opening empty storage with the shipped step list leaves "version" =
\* "v1" and the config record with logLevel WARN, port 8080, host localhost,
\* updateNotifications true; the run started from the first declared step.
C10_ColdStart ==
    (mpc = "done" /\ preStore = EmptyStore /\ steps = SproutSteps) =>
        /\ applied = <<"v1">>
        /\ store.version = "v1"
        /\ store.data.present
        /\ store.data.logLevel = "WARN"
        /\ store.data.port = 8080
        /\ store.data.host = "localhost"
        /\ store.data.updateNotifications = TRUE

C10_Witness ==
    mpc = "done" /\ preStore = EmptyStore /\ steps = SproutSteps /\ store.version = "v1"

\* C11 (as claimed): declaring two steps with the same id is rejected when the
\* runner is constructed, so no run is executed over a step list with a
\* repeated id.
C11_Claim ==
    (InRun \/ mpc \in {"done", "failed"}) =>
        \A i, j \in 1..Len(steps) : steps[i] = steps[j] => i = j

(***************************************************************************)
(* Properties of the store helpers                                         *)
(***************************************************************************)
\* C12: for any interleaving of Upsert calls and View calls on one key, View
\* returns the value that was committed when its transaction began (the value
\* before or after the Upsert running meanwhile), always a value some
\* transaction committed, never a partial one.
C12_ViewCommitted ==
    rpc = "ret" =>
        /\ rres = ViewResult(rseen)
        /\ \E h \in hist : rres = ViewResult(h)

\* C12 witness: a View that began while an Upsert had written but not yet
\* committed has returned the value from before that Upsert.
C12_Witness ==
    /\ rpc = "ret"
    /\ \E w \in Writers : wpc[w] = "end" /\ ~wres[w].err /\ wtxn # kv
    /\ rres = ViewResult(kv)

\* C13: when the function passed to Update or Upsert returns an error the
\* call returns an error and the committed value of the key is what it was
\* before the call; a failing Upsert on an absent key leaves it absent.
C13_FailingFn ==
    \A w \in Writers :
        (wpc[w] = "ret" /\ wfn[w] = "fail") =>
            /\ wres[w].err
            /\ wpost[w] = wpre[w]

\* C13 witness: an Upsert with a failing function has returned on an absent
\* key, and an Update with a failing function on a present key.
C13_Witness ==
    \E w1, w2 \in Writers :
        /\ wpc[w1] = "ret" /\ wfn[w1] = "fail" /\ wop[w1] = "upsert"
        /\ ~wpre[w1].present /\ ~wpost[w1].present
        /\ wpc[w2] = "ret" /\ wfn[w2] = "fail" /\ wop[w2] = "update"
        /\ wpre[w2].present

\* C14: a successful Upsert returns created = TRUE exactly when the key was
\* absent before the call; the committed value afterwards is the function
\* applied to default() in that case and to the existing value otherwise.
C14_UpsertCreated ==
    \A w \in Writers :
        (wpc[w] = "ret" /\ wop[w] = "upsert" /\ ~wres[w].err) =>
            /\ wres[w].created <=> ~wpre[w].present
            /\ ~wpre[w].present =>
                  wpost[w] = Stored(Marshal(ApplyFn(wfn[w], Default).val))
            /\ wpre[w].present =>
                  wpost[w] = Stored(Marshal(ApplyFn(wfn[w], Unmarshal(wpre[w].bytes)).val))

\* C14 witness: one Upsert has created the key and another has updated it.
C14_Witness ==
    \E w1, w2 \in Writers :
        /\ wpc[w1] = "ret" /\ wop[w1] = "upsert" /\ ~wres[w1].err /\ wres[w1].created
        /\ wpc[w2] = "ret" /\ wop[w2] = "upsert" /\ ~wres[w2].err /\ ~wres[w2].created
        /\ wpre[w2].present /\ wpost[w2] # wpre[w2]

C16_CheckCommits ==
    /\ chk.written \in {{}, {"updateAvailable", "lastUpdateCheck"}}
    /\ (chk.pc \in {"commit", "done"} /\ chk.err = "nil" /\ SemverOf(chk.latest) # << >>) =>
          (chk.ret <=> <<chk.latest, chk.ver>> \in
                          {<<"v1.1.0", "v1.0.0">>, <<"v1.10.0", "v1.0.0">>,
                           <<"v1.10.0", "v1.1.0">>})
    /\ (chk.pc = "done" /\ chk.err = "nil") =>
          /\ chk.written = {"updateAvailable", "lastUpdateCheck"}
          /\ chk.post.updateAvailable = chk.ret
          /\ chk.post.lastUpdateCheck = chk.at

\* C16 witness: a check that found a newer release has committed, at a time
\* after the initial config was written.
C16_Witness ==
    /\ chk.pc = "done" /\ chk.err = "nil" /\ chk.ret /\ chk.latest = "v1.10.0"
    /\ chk.at > 0
    /\ store.data.updateAvailable /\ store.data.lastUpdateCheck = chk.at

\* C17 (as claimed): right after uPrep succeeded the stored config has
\* updateAvailable = FALSE and preUpdateVersion equal to the running version.
C17_Claim ==
    \A c \in Callers :
        call[c] = "act" =>
            /\ store.data.updateAvailable = FALSE
            /\ store.data.preUpdateVersion = BuildVersion(build[AppProc])


\* C18 (as claimed): the stored preUpdateVersion changes only in a step of the
\* update preparation (uPrep); teardown, restart, CheckForUpdate and the
\* migrator leave it as it was.
C18_Claim ==
    [][(store.data.present /\ store'.data.present
            /\ store'.data.preUpdateVersion # store.data.preUpdateVersion) =>
          \E c \in Callers : call[c] = "prep" /\ call'[c] = "act"]_vars


(***************************************************************************)
(* Properties of SetPostCleanup and of teardown                            *)
(***************************************************************************)
\* C19: of the SetPostCleanup calls on one App only the first succeeds; every
\* later call, in whatever order racing goroutines get the mutex, returns
\* PostCleanupAlreadySet and leaves the first function registered; the
\* function teardown calls as post cleanup is the first one.
C19_FirstHookStays ==
    /\ postCleanup[AppProc] = (IF setLog = << >> THEN "nil" ELSE setLog[1].f)
    /\ \A i \in 1..Len(setLog) : setLog[i].ok <=> i = 1
    /\ postRan # "nil" => (setLog # << >> /\ postRan = setLog[1].f)

\* C19 witness: h1 was registered, a later call with h2 was refused, and
\* teardown has called h1.
C19_Witness ==
    /\ Len(setLog) >= 2
    /\ setLog[1].f = "h1" /\ setLog[2].f = "h2" /\ ~setLog[2].ok
    /\ postRan = "h1"

\* C20: teardown calls the registered cleanup functions in the reverse of
\* their registration order (mguard, logger, database, auto checker), each
\* once; it leaves the loop only when all of them were called, whatever they
\* returned, and then calls the post cleanup function if one is set.
C20_ReverseOrder ==
    /\ [](pc[AppProc] \in {"closing", "post"} =>
            LET n == Len(closeLog)
                called == [i \in 1..n |-> closeLog[n + 1 - i].f]
            IN  \E k \in 0..4 :
                    cleanup[AppProc] \o called =
                        SubSeq(<<"mguard", "log", "db", "ac">>, 1, k))
    /\ [][(pc[AppProc] = "closing" /\ pc'[AppProc] # "closing") =>
              /\ cleanup[AppProc] = << >>
              /\ postCleanup[AppProc] # "nil" => pc'[AppProc] = "post"]_vars
    /\ [][(pc[AppProc] = "post" /\ pc'[AppProc] # "post") =>
              postRan' = postCleanup[AppProc]]_vars

\* C20 witness: the logger's cleanup failed, the cleanups registered before
\* it were still called, and teardown is at the post cleanup function.
C20_Witness ==
    /\ pc[AppProc] = "post"
    /\ Len(closeLog) = 4
    /\ closeLog[1].f = "ac" /\ closeLog[2].f = "db"
    /\ closeLog[3].f = "log" /\ closeLog[3].err
    /\ closeLog[4].f = "mguard"
    /\ postCleanup[AppProc] = "payload"


\* C21: in one process no cleanup function and no post cleanup function is
\* called more than once, however often and whenever Close is called: a Close
\* call that does not find cleanupOnce new (a concurrent or a later call)
\* changes nothing.
C21_CloseOnce ==
    /\ [](/\ \A i, j \in 1..Len(closeLog) :
                closeLog[i].f = closeLog[j].f => i = j
          /\ nPost <= 1)
    /\ [][(cleanupOnce \in closeSeen' \ closeSeen /\ cleanupOnce # "new") =>
              UNCHANGED <<pc, cleanup, held, markers, store, closeLog,
                          postRan, nPost, launches, cleanupOnce>>]_vars

\* C21 witness: Close was called before, during and after the teardown, which
\* called four cleanup functions and the post cleanup function.
C21_Witness ==
    /\ closeSeen = {"new", "running", "done"}
    /\ pc[AppProc] = "closed"
    /\ Len(closeLog) = 4
    /\ nPost = 1


(***************************************************************************)
(* Properties of a failing Init and of the migration guard                 *)
(***************************************************************************)
\* C22: when Init fails, Close still calls every cleanup function registered
\* before the failure, last registered first, before the process exits: the
\* process never exits with a cleanup function uncalled, with its marker file
\* present, or with the lock file, the log or the store still open.
C22_InitFailUnwinds ==
    /\ []((initErr # "nil" /\ pc[AppProc] \in {"closing", "post"}) =>
            Registered =
                CASE initErr \in {"mguard", "marker", "timeout"} -> << >>
                  [] initErr = "logger" -> <<"mguard">>
                  [] initErr = "database" -> <<"mguard", "log">>
                  [] OTHER -> <<"mguard", "log", "db">>)
    /\ [][(pc[AppProc] # "off" /\ pc'[AppProc] = "off") =>
              /\ cleanup[AppProc] = << >>
              /\ held[AppProc] = {}
              /\ AppProc \notin markers]_vars

\* C22 witness: Init failed after the store was opened, and Close has called
\* the three cleanup functions: the marker is gone and nothing is open.
C22_Witness ==
    /\ initErr = "autocheck"
    /\ pc[AppProc] = "closing"
    /\ Len(closeLog) = 3
    /\ closeLog[1].f = "db" /\ closeLog[3].f = "mguard"
    /\ held[AppProc] = {}
    /\ AppProc \notin markers


\* C23 (as claimed): a process whose mguard gave up on the shared lock after
\* LockAcquireTimeout is not on the way to creating a marker file and, from
\* then on, neither holds nor obtains a lock on migrate.lock.
C23_Claim ==
    \A p \in Procs :
        (p \in flockWait /\ pc[p] # "off") =>
            /\ pc[p] \notin {"marker", "logger", "database", "autocheck", "running"}
            /\ "lock" \notin held[p]


\* C24: without crashes the marker file of a normal instance exists only
\* while the process holds the shared lock: it is created when the lock is
\* held, and the step that releases the lock (the mguard cleanup) leaves the
\* marker absent, the lock dropped and the file migrate.lock in place.
C24_MarkerInsideLock ==
    /\ [](AppProc \in markers => "lock" \in held[AppProc])
    /\ [][(AppProc \in markers' /\ AppProc \notin markers) =>
              ("lock" \in held[AppProc] /\ "lock" \in held'[AppProc])]_vars
    /\ [][("lock" \in held[AppProc] /\ "lock" \notin held'[AppProc]) =>
              (AppProc \notin markers' /\ lockFile')]_vars

\* C24 witness: the mguard cleanup has run in a teardown: the marker is gone,
\* the lock is dropped, migrate.lock exists.
C24_Witness ==
    /\ pc[AppProc] = "closing"
    /\ closeLog # << >>
    /\ closeLog[Len(closeLog)].f = "mguard"
    /\ AppProc \notin markers
    /\ "lock" \notin held[AppProc]
    /\ lockFile


\* C25: the migrator instance never asks for the shared lock and never
\* creates a marker file; opening its log and its store is not held up by the
\* exclusive lock the installer holds on migrate.lock.
C25_MigratorSkipsGuard ==
    /\ pc[MigId] \notin {"mguard", "marker"}
    /\ "lock" \notin held[MigId]
    /\ MigId \notin markers
    /\ MigId \notin flockWait
    /\ (pc[MigId] = "logger" /\ exHeld) => ENABLED OpenLog(MigId)
    /\ (pc[MigId] = "database" /\ exHeld) => ENABLED OpenDB(MigId)

\* C25 witness: the migrator has opened the store while the installer holds
\* the exclusive lock on the lock file of the instances.
C25_Witness ==
    /\ pc[MigId] = "autocheck"
    /\ "db" \in held[MigId]
    /\ exHeld
    /\ SameLockFile


\* C26 (as claimed): whenever the installer holds its exclusive lock, the
\* file it locked is the lock file of the normal instances and the directory
\* it scanned is their marker directory, with XDG_RUNTIME_DIR set or not.
C26_Claim ==
    exHeld => (SameLockFile /\ SameInstancesDir)


\* C27 (as claimed): when the installer, holding the exclusive lock, makes
\* its final check while a marker file of an instance is newer than the lock
\* file, it aborts: it does not go on to launch the migrator.
C27_Claim ==
    [][(ipc = "check" /\ markers \cap fresh # {}) =>
          (ipc' \notin {"migrate", "wait"} /\ pc'[MigId] = "off")]_vars


\* C28 (as claimed): when the installer has gone through the markers, every
\* running normal instance with a marker in the directory it scanned has been
\* sent TERM, whether it was started before or after the binary was replaced.
C28_Claim ==
    [][(ipc = "signal" /\ ipc' = "open") =>
          \A p \in Procs :
              (p \in ShMarkers /\ pc[p] # "off") => p \in termed']_vars

(***************************************************************************)
(* C29: when startAutoChecker starts the checker with updateNotifications  *)
(* enabled in the config Init read: if the last check is at least          *)
(* UpdateCheckInterval (24 hours) old, exactly one CheckForUpdate call is  *)
(* made, at start, and no firing follows before a full interval has        *)
(* passed; otherwise no call is made at start, the timer's deadline is     *)
(* lastUpdateCheck + 24 hours and the first firing happens at that time.   *)
(***************************************************************************)
C29_StartCheck ==
    (Len(acLog) >= 1 /\ acLog[1].notif) =>
        LET r == acLog[1]
            last == r.at - r.since
        IN  /\ r.kind = "start"
            /\ IF r.since >= UpdateCheckInterval
               THEN /\ r.n = 1
                    /\ Len(acLog) >= 2 => acLog[2].at >= r.at + UpdateCheckInterval
               ELSE /\ r.n = 0
                    /\ ac.pc = "timer" => ac.due = last + UpdateCheckInterval
                    /\ Len(acLog) >= 2 => acLog[2].at = last + UpdateCheckInterval

\* C29 witness: a checker started a minute after the last check has seen its
\* timer fire, 24 hours after that check
C29_Witness ==
    /\ Len(acLog) >= 2
    /\ acLog[1].notif
    /\ acLog[1].since = Minute
    /\ acLog[1].n = 0
    /\ acLog[2].kind = "timer"
    /\ acLog[2].at = acLog[1].at + UpdateCheckInterval - Minute

(***************************************************************************)
(* C30: a start or a firing of the auto checker that finds                 *)
(* updateNotifications false in the stored config makes no CheckForUpdate  *)
(* call, and the goroutine then waits for the next firing a full interval  *)
(* later; a firing of the same goroutine that reads the flag as true, with *)
(* the last check at least 24 hours old, makes the call.                   *)
(***************************************************************************)
C30_FlagGates ==
    /\ \A i \in 1..Len(acLog) : ~acLog[i].notif => acLog[i].n = 0
    /\ \A i \in 1..Len(acLog) :
          (~acLog[i].notif /\ i < Len(acLog)) =>
              acLog[i + 1].at = acLog[i].at + UpdateCheckInterval
    /\ (Len(acLog) >= 1 /\ ~acLog[Len(acLog)].notif /\ ac.pc # "off") =>
          /\ ac.pc \in {"timer", "ticker"}
          /\ ac.due = acLog[Len(acLog)].at + UpdateCheckInterval
    /\ \A i \in 2..Len(acLog) :
          (acLog[i].read /\ acLog[i].notif /\ acLog[i].since >= UpdateCheckInterval)
              => acLog[i].n = 1

\* C30 witness: a checker started with the flag off fired once with the flag
\* still off, without a call, and a day later, the flag on by then, made the call
C30_Witness ==
    /\ Len(acLog) = 3
    /\ ~acLog[1].notif /\ acLog[1].n = 0
    /\ ~acLog[2].notif /\ acLog[2].n = 0 /\ acLog[2].since >= UpdateCheckInterval
    /\ acLog[3].notif /\ acLog[3].n = 1
    /\ acLog[3].at = acLog[2].at + UpdateCheckInterval

(***************************************************************************)
(* C31: at every start or firing of one auto checker, T minutes after its  *)
(* start, the CheckForUpdate calls it has made so far, this one included,  *)
(* number at most ceil((T + 1 hour) / 24 hours), whatever lastUpdateCheck  *)
(* was and however the calls ended.                                        *)
(***************************************************************************)
C31_CallBudget ==
    \A i \in 1..Len(acLog) :
        LET T == acLog[i].at - acLog[1].at
            calls == Cardinality({j \in 1..i : acLog[j].n = 1})
        IN  calls * UpdateCheckInterval
                <= (T + 60 * Minute) + (UpdateCheckInterval - 1)

\* C31 witness: a checker that called at start, the call failing, and again
\* at its first firing 24 hours later: two calls, the most the bound allows
C31_Witness ==
    /\ Len(acLog) >= 2
    /\ acLog[1].n = 1
    /\ acLog[2].n = 1
    /\ acLog[2].at = acLog[1].at + UpdateCheckInterval
    /\ acLog[2].since > UpdateCheckInterval

(***************************************************************************)
(* C32: once Close has run the auto checker's cleanup the goroutine is     *)
(* gone, whether it waited on the timer or on the ticker, no call of it is *)
(* still in flight, and from then on it records no firing and starts no    *)
(* CheckForUpdate call; the cleanup does not return while a call of the    *)
(* goroutine is in flight.                                                 *)
(***************************************************************************)
C32_StopAndWait ==
    /\ []((\E i \in 1..Len(closeLog) : closeLog[i].f = "ac") =>
              (ac.pc = "off" /\ chk.pc # "commit"))
    /\ [][("ac" \in held[AppProc] /\ "ac" \notin held'[AppProc]) =>
              (chk.pc # "commit" /\ ac'.pc = "off")]_vars
    /\ [][(\E i \in 1..Len(closeLog) : closeLog[i].f = "ac") =>
              (acLog' = acLog \/ acLog' = << >>) /\ chk'.pc # "commit"]_vars

\* C32 witness: the cleanup has run on a goroutine that had fired and
\* called before and was waiting on its ticker
C32_Witness ==
    /\ pc[AppProc] = "closing"
    /\ \E i \in 1..Len(closeLog) : closeLog[i].f = "ac"
    /\ Len(acLog) >= 2
    /\ acLog[2].n = 1
    /\ ac.pc = "off"

(***************************************************************************)
(* C35: a CheckForUpdate call whose request to the release source fails    *)
(* (error, or deadline passed) returns false with the error, has written   *)
(* nothing, and the step in which it fails leaves the stored config,       *)
(* updateAvailable and lastUpdateCheck included, as it was.                *)
(***************************************************************************)
C35_FetchError ==
    /\ []((chk.pc = "done" /\ chk.err = "net") =>
              (~chk.ret /\ chk.written = {} /\ chk.contacted))
    /\ [][(chk' # chk /\ chk'.err = "net") => store' = store]_vars

\* C35 witness: a check has failed at the release source at a later time
\* than the successful check that stored updateAvailable = TRUE, and both
\* fields still are what that earlier check wrote
C35_Witness ==
    /\ chk.pc = "done" /\ chk.err = "net"
    /\ store.data.present
    /\ store.data.updateAvailable
    /\ store.data.lastUpdateCheck < chk.at

(***************************************************************************)
(* C36: whenever a normal instance has the database open it holds the      *)
(* shared lock on migrate.lock and its marker file exists: Init takes the  *)
(* guard before database.New, Close closes the database before it runs the *)
(* guard's cleanup (a process that is killed drops both at once).          *)
(***************************************************************************)
C36_StoreInsideGuard ==
    /\ [](\A p \in Procs : "db" \in held[p] => ("lock" \in held[p] /\ p \in markers))
    /\ [][\A p \in Procs :
            /\ ("db" \notin held[p] /\ "db" \in held'[p]) => "lock" \in held[p]
            /\ ("lock" \in held[p] /\ "lock" \notin held'[p] /\ pc'[p] # "off")
                  => "db" \notin held[p]]_vars

\* C36 witness: Close of an instance has closed the database and the logger
\* and still holds the lock, with the marker in place
C36_Witness ==
    /\ pc[AppProc] = "closing"
    /\ \E i \in 1..Len(closeLog) : closeLog[i].f = "db"
    /\ held[AppProc] = {"lock"}
    /\ AppProc \in markers
    /\ cleanup[AppProc] = <<"mguard">>

(***************************************************************************)
(* C37: the URL getBaseURL derives from a config is scheme://host with an  *)
(* optional :port, where host is the configured host, or localhost when    *)
(* that is empty, the effective port is proxyPort when it is not 0 and     *)
(* port otherwise, the scheme is https exactly when the effective port is  *)
(* 443, and the port is left out exactly when it is 80 or 443.             *)
(***************************************************************************)
C37_BaseURL ==
    baseURL.cfg.present =>
        LET c == baseURL.cfg
            eff == IF c.proxyPort = 0 THEN c.port ELSE c.proxyPort
            h == IF c.host = "" THEN "localhost" ELSE c.host
        IN  baseURL.url =
                CASE eff = 443 -> "https://" \o h
                  [] eff = 80 -> "http://" \o h
                  [] OTHER -> "http://" \o h \o ":" \o ToString(eff)

\* C37 witness: a config with an empty host and proxy port 443 in front of
\* port 8080 gave https://localhost
C37_Witness ==
    /\ baseURL.cfg.present
    /\ baseURL.cfg.host = ""
    /\ baseURL.cfg.proxyPort = 443
    /\ baseURL.cfg.port = 8080
    /\ baseURL.url = "https://localhost"

(***************************************************************************)
(* C38: while the auto checker's goroutine exists, or a CheckForUpdate     *)
(* call of it is in flight, the database of the instance is open; every    *)
(* firing (which reads the config) and every step of its call happens with *)
(* the database open; and the checker's cleanup is registered after the    *)
(* database's, so Close runs it first.                                     *)
(***************************************************************************)
C38_CheckerInsideStore ==
    /\ []((ac.pc # "off" \/ chk.pc = "commit") => "db" \in held[AppProc])
    /\ [](\A i, j \in 1..Len(cleanup[AppProc]) :
             (cleanup[AppProc][i] = "db" /\ cleanup[AppProc][j] = "ac") => i < j)
    /\ [][((acLog' # acLog /\ acLog' # << >>) \/ (chk' # chk /\ chk' # ChkIdle))
              => ("db" \in held[AppProc] /\ "db" \in held'[AppProc])]_vars
    /\ [][("db" \in held[AppProc] /\ "db" \notin held'[AppProc])
              => (ac.pc = "off" /\ chk.pc # "commit")]_vars

\* C38 witness: Close has stopped a goroutine that had made a call at its
\* last firing, and has closed the database after that
C38_Witness ==
    /\ pc[AppProc] = "closing"
    /\ Len(closeLog) >= 2
    /\ closeLog[1].f = "ac" /\ closeLog[2].f = "db"
    /\ "db" \notin held[AppProc]
    /\ Len(acLog) >= 2
    /\ acLog[Len(acLog)].n = 1
    /\ ac.pc = "off"

(***************************************************************************)
(* C39: a DeferUpdate or DetachUpdate call that ran the function and       *)
(* failed (uPrep failed, or the detached launch failed) leaves the Once    *)
(* done; from then on, for the life of that App, no call gets to uPrep or  *)
(* to registering or launching, nothing is registered or launched, and     *)
(* every call that returns returns nil.                                    *)
(***************************************************************************)
C39_FailureConsumesLatch ==
    /\ [](\A c \in Callers :
             (call[c] = "returned" /\ callRan[c] /\ callErr[c] # "nil")
                 => (uOnce[AppProc] = "done" /\ nReg + nDet = 0))
    /\ [][(uOnce[AppProc] = "done" /\ nReg + nDet = 0 /\ pc[AppProc] # "off") =>
             /\ uOnce'[AppProc] = "done"
             /\ nReg' + nDet' = 0
             /\ launches' = launches
             /\ postCleanup' = postCleanup
             /\ \A c \in Callers :
                   /\ call'[c] \notin {"prep", "act"}
                   /\ (call'[c] = "returned"
                         /\ <<call'[c], callRan'[c], callErr'[c]>>
                                # <<call[c], callRan[c], callErr[c]>>)
                         => (callErr'[c] = "nil" /\ ~callRan'[c])]_vars

\* C39 witness: on a release build the call that ran the function failed in
\* the detached launch, and a later call has returned nil without running it
C39_Witness ==
    /\ ~IsDevBuild(BuildVersion(build[AppProc]))
    /\ pc[AppProc] = "running"
    /\ uOnce[AppProc] = "done"
    /\ nReg + nDet = 0
    /\ store.data.present /\ ~store.data.updateAvailable
    /\ \E c \in Callers : call[c] = "returned" /\ ~callRan[c] /\ callErr[c] = "nil"


(***************************************************************************)
(* C34: whenever the stored startCounter is greater than 0 after a restart *)
(* request was accepted, the service has reached listening since the most  *)
(* recent such request: only the after-listen hook raises the counter, and *)
(* the step of the restart handler that initiates the shutdown or enters   *)
(* DetachUpdate leaves the counter at 0.                                   *)
(***************************************************************************)
C34_CounterMeansListened ==
    /\ []((svc.requested /\ store.data.present /\ store.data.startCounter > 0)
              => svc.listenedSince)
    /\ [][(store.data.present /\ store'.data.present
             /\ store'.data.startCounter > store.data.startCounter)
              => (~svc.listening /\ svc'.listening
                    /\ store'.data.startCounter = store.data.startCounter + 1)]_vars
    /\ [][((svc'.shutdown /\ ~svc.shutdown)
             \/ (pc[AppProc] = "running" /\ pc'[AppProc] = "running"
                   /\ call[Client] \in {"idle", "returned"}
                   /\ call'[Client] \in {"prep", "blocked"}))
              => store'.data.startCounter = 0]_vars

\* C34 witness: a process listens again after an accepted restart request,
\* and the counter is above 0
C34_Witness ==
    /\ svc.requested
    /\ svc.listenedSince
    /\ svc.listening
    /\ pc[AppProc] = "running"
    /\ store.data.present
    /\ store.data.startCounter > 0

C40_Claim ==
    svc.owed ~> (pc[AppProc] = "off")

====
